---- MODULE Spec2Model ----
(***************************************************************************)
(* redis-bitmap: the Bitmap facade, the Aggregate session and the BitArray *)
(* decoding, over a byte-level model of the key-value store they talk to.  *)
(***************************************************************************)
EXTENDS Integers, Sequences, FiniteSets, TLC

\* ------------------------------------------------------------------ bounds
MaxCalls == 2
MaxSetCalls == 3
MaxOther == 1
MaxChain == 3
MaxBitmaps == 2
MaxExecs == 2
MaxGets == 1
MaxLate == 2
MaxErrCalls == 1

\* ----------------------------------------------------------------- domains
Scratch == "bitmap:tmp"
Keys == {"a", "b", Scratch}
Offsets == {0, 9}
Ops == {"AND", "OR", "XOR", "NOT"}
KeyLists == {<<"a">>, <<"a", "b">>, <<"a", "b", Scratch>>}
\* contents the store may hold when the client starts: nothing; two keys of
\* unequal length; the same with a value left behind under the scratch key
InitStores ==
    {[k \in Keys |-> << >>],
     [k \in Keys |-> CASE k = "a" -> <<160>> [] k = "b" -> <<32, 1>> [] OTHER -> << >>],
     [k \in Keys |-> CASE k = "a" -> <<160>> [] k = "b" -> <<32, 1>> [] OTHER -> <<255>>]}

\* ------------------------------------------------------- sequence helpers
RECURSIVE Reverse(_)
Reverse(s) == IF s = << >> THEN << >> ELSE Reverse(Tail(s)) \o <<Head(s)>>

RECURSIVE Zeros(_)
Zeros(n) == IF n <= 0 THEN << >> ELSE <<0>> \o Zeros(n - 1)

RECURSIVE SumSeq(_)
SumSeq(s) == IF s = << >> THEN 0 ELSE Head(s) + SumSeq(Tail(s))

Max(a, b) == IF a >= b THEN a ELSE b

Pow2(n) == <<1, 2, 4, 8, 16, 32, 64, 128>>[n + 1]

\* ---------------------------------------------------------------- BitArray
\* BitArray.octet: zero fill up to a multiple of 8 (a full octet when empty)
Octet(arr) ==
    LET len == Len(arr)
        mod == len % 8
        fill == len + (8 - mod)
    IN IF len # 0 /\ mod = 0 THEN arr ELSE arr \o Zeros(fill - len)

\* the while loop of BitArray.cast: least significant bit first
RECURSIVE CastLoop(_)
CastLoop(tmp) == IF tmp > 0 THEN <<tmp % 2>> \o CastLoop(tmp \div 2) ELSE << >>

\* BitArray.cast(num, oct)
\* (mutant) the bits are left in the order the loop found them
CastLowFirst(num, oct) ==
    LET bits == CastLoop(num)
    IN IF oct THEN Octet(bits) ELSE bits

Cast(num, oct) ==
    LET bits == CastLoop(num)
    IN Reverse(IF oct THEN Octet(bits) ELSE bits)

\* BitArray.castFromBuffer(buf)
RECURSIVE CastFromBuffer(_)
CastFromBuffer(buf) ==
    IF buf = << >> THEN << >>
    ELSE Octet(Cast(Head(buf), TRUE)) \o CastFromBuffer(Tail(buf))

\* ---- the algebra of bit arrays
\* (mutant) the first argument is taken for the longest
LongestIsFirst(args, i, len, resp) == args[1]

\* utils.longest: the loop from argument i on (a later argument of the same
\* length replaces an earlier one)
RECURSIVE LongestFrom(_, _, _, _)
LongestFrom(args, i, len, resp) ==
    IF i > Len(args) THEN resp
    ELSE IF Len(args[i]) >= len THEN LongestFrom(args, i + 1, Len(args[i]), args[i])
    ELSE LongestFrom(args, i + 1, len, resp)

Longest(args) == LongestFrom(args, 1, 0, << >>)

\* the number of arguments x with x[i] === 1 (i counted from 1 here)
OnesAt(args, i) == Cardinality({k \in 1..Len(args) : i <= Len(args[k]) /\ args[k][i] = 1})

\* BitArray.and / BitArray.intersect
Intersect(args) ==
    [i \in 1..Len(Longest(args)) |-> IF OnesAt(args, i) = Len(args) THEN 1 ELSE 0]

\* (mutant) a bit needs two arguments that have it
UnionOfTwo(args) ==
    [i \in 1..Len(Longest(args)) |-> IF OnesAt(args, i) > 1 THEN 1 ELSE 0]

\* BitArray.or / BitArray.union
Union(args) ==
    [i \in 1..Len(Longest(args)) |-> IF OnesAt(args, i) # 0 THEN 1 ELSE 0]

\* a[i] as a condition: a missing element (undefined) and 0 are false
Truthy(a, i) == i <= Len(a) /\ a[i] # 0

\* (mutant) a bit that both arguments have is kept
DifferenceKeepsBoth(a, b) ==
    [i \in 1..Len(Longest(<<a, b>>)) |-> IF Truthy(a, i) \/ Truthy(b, i) THEN 1 ELSE 0]

\* BitArray.xor / BitArray.difference
Difference(a, b) ==
    [i \in 1..Len(Longest(<<a, b>>)) |->
        IF (Truthy(a, i) /\ ~Truthy(b, i)) \/ (Truthy(b, i) /\ ~Truthy(a, i)) THEN 1 ELSE 0]

\* ---- the methods of a BitArray
\* join(''): the digits as a string, here the sequence of its characters
RECURSIVE Join(_)
Join(arr) ==
    IF arr = << >> THEN << >>
    ELSE <<IF Head(arr) = 0 THEN "0" ELSE "1">> \o Join(Tail(arr))

\* (mutant) the bits are reversed in place, without the copy slice() makes
ToStringInPlace(bits) == [bits |-> Reverse(bits), str |-> Join(Reverse(bits))]

\* BitArray.prototype.toString: the bits it leaves and the string it returns
BitsToString(bits) == [bits |-> bits, str |-> Join(Reverse(bits))]

\* (mutant) the value is stored as it was given
SetRaw(bits, idx, val) ==
    LET grown == IF idx > Len(bits) THEN bits \o Zeros(idx - Len(bits)) ELSE bits
    IN IF idx < Len(grown) THEN [grown EXCEPT ![idx + 1] = val] ELSE Append(grown, val)

\* BitArray.prototype.set(idx, val): zeros are pushed while idx > bits.length,
\* then bits[idx] is assigned 1 or 0
Set(bits, idx, val) ==
    LET grown == IF idx > Len(bits) THEN bits \o Zeros(idx - Len(bits)) ELSE bits
        bit == IF val # 0 THEN 1 ELSE 0
    IN IF idx < Len(grown) THEN [grown EXCEPT ![idx + 1] = bit] ELSE Append(grown, bit)

\* ---- 32-bit integers of the bitwise operators: bit i of the integer is
\* element i + 1 of a tuple of WordBits bits, bit 31 is the sign
WordBits == 32

\* the tuple of the bits f[1] .. f[WordBits]
RECURSIVE BitsFrom(_, _)
BitsFrom(f, i) == IF i > WordBits THEN << >> ELSE <<f[i]>> \o BitsFrom(f, i + 1)

Word(n) == BitsFrom([i \in 1..WordBits |-> IF i <= 8 THEN (n \div Pow2(i - 1)) % 2 ELSE 0], 1)
ZeroWord == BitsFrom([i \in 1..WordBits |-> 0], 1)

\* x << k
Shl(x, k) == BitsFrom([i \in 1..WordBits |-> IF i > k THEN x[i - k] ELSE 0], 1)

\* x >> k, which repeats the sign
Sar(x, k) ==
    BitsFrom([i \in 1..WordBits |-> IF i + k <= WordBits THEN x[i + k] ELSE x[WordBits]], 1)

\* x & y
AndW(x, y) == BitsFrom([i \in 1..WordBits |-> x[i] * y[i]], 1)

\* x + y and x - y as the next bitwise operator reads them (modulo 2^32)
RECURSIVE AddC(_, _, _, _)
AddC(x, y, i, c) ==
    IF i > WordBits THEN << >>
    ELSE <<(x[i] + y[i] + c) % 2>> \o AddC(x, y, i + 1, (x[i] + y[i] + c) \div 2)
AddW(x, y) == AddC(x, y, 1, 0)
SubW(x, y) == AddC(x, BitsFrom([i \in 1..WordBits |-> 1 - y[i]], 1), 1, 1)

\* 0x55555555, 0x33333333, 0x0f0f0f0f, 0x0000003f
Mask55 == BitsFrom([i \in 1..WordBits |-> IF (i - 1) % 2 < 1 THEN 1 ELSE 0], 1)
Mask33 == BitsFrom([i \in 1..WordBits |-> IF (i - 1) % 4 < 2 THEN 1 ELSE 0], 1)
Mask0f == BitsFrom([i \in 1..WordBits |-> IF (i - 1) % 8 < 4 THEN 1 ELSE 0], 1)
Mask3f == BitsFrom([i \in 1..WordBits |-> IF i <= 6 THEN 1 ELSE 0], 1)

\* the value of a word that is below 64
Low6(x) == x[1] + 2 * x[2] + 4 * x[3] + 8 * x[4] + 16 * x[5] + 32 * x[6]

\* a number as the caller passes it: its sign and the binary digits of its
\* magnitude. Signed(w) is the number the 32-bit integer w stands for (negative
\* when bit 31 is set), Unsigned(w) the number with the binary digits w.
Signed(w) ==
    IF w[WordBits] = 1 THEN [neg |-> TRUE, mag |-> SubW(ZeroWord, w)]
    ELSE [neg |-> FALSE, mag |-> w]
Unsigned(w) == [neg |-> FALSE, mag |-> w]

\* the 32-bit integer a bitwise operator makes of a number below 2^32 in
\* magnitude: the number modulo 2^32
ToInt32(num) == IF num.neg THEN SubW(ZeroWord, num.mag) ELSE num.mag

\* (mutant) the upper half of the word is never added in
BitCardinalityLowHalf(x) ==
    LET x1 == SubW(x, AndW(Sar(x, 1), Mask55))
        x2 == AddW(AndW(Sar(x1, 2), Mask33), AndW(x1, Mask33))
        x3 == AndW(AddW(Sar(x2, 4), x2), Mask0f)
        x4 == AddW(x3, Sar(x3, 8))
    IN Low6(AndW(x4, Mask3f))

\* BitArray.cardinality(x)
BitCardinality(x) ==
    LET x1 == SubW(x, AndW(Sar(x, 1), Mask55))
        x2 == AddW(AndW(Sar(x1, 2), Mask33), AndW(x1, Mask33))
        x3 == AndW(AddW(Sar(x2, 4), x2), Mask0f)
        x4 == AddW(x3, Sar(x3, 8))
        x5 == AddW(x4, Sar(x4, 16))
    IN Low6(AndW(x5, Mask3f))

\* buf[i] as an operand of <<: a missing element (undefined) counts as 0
BufAt(buf, i) == IF i < Len(buf) THEN Word(buf[i + 1]) ELSE ZeroWord

\* the word cardinalityFromBuffer builds from the four bytes at i
WordAt(buf, i) ==
    AddW(AddW(AddW(BufAt(buf, i), Shl(BufAt(buf, i + 1), 8)),
              Shl(BufAt(buf, i + 2), 16)),
         Shl(BufAt(buf, i + 3), 24))

\* (mutant) a final word of fewer than four bytes is left out
RECURSIVE CardinalityFromWords(_, _)
CardinalityFromWords(buf, i) ==
    IF i + 3 < Len(buf)
    THEN BitCardinality(WordAt(buf, i)) + CardinalityFromWords(buf, i + 4)
    ELSE 0

\* BitArray.cardinalityFromBuffer, from index i on
RECURSIVE CardinalityFrom(_, _)
CardinalityFrom(buf, i) ==
    IF i < Len(buf)
    THEN BitCardinality(WordAt(buf, i)) + CardinalityFrom(buf, i + 4)
    ELSE 0

CardinalityFromBuffer(buf) == CardinalityFrom(buf, 0)

\* BitArray.cardinalityFromArray
RECURSIVE CardinalityFromArray(_)
CardinalityFromArray(arr) ==
    IF arr = << >> THEN 0
    ELSE (IF Head(arr) # 0 THEN 1 ELSE 0) + CardinalityFromArray(Tail(arr))

\* --------------------------------------------------------- bytes and bits
\* bit i of a byte, i = 0 the most significant one (the store's bit numbering)
BitAt(byte, i) == (byte \div Pow2(7 - i)) % 2

ByteFromBits(f) ==
    f[0] * 128 + f[1] * 64 + f[2] * 32 + f[3] * 16 + f[4] * 8 + f[5] * 4 + f[6] * 2 + f[7]

BitFn(op, x, y) ==
    CASE op = "AND" -> IF x = 1 /\ y = 1 THEN 1 ELSE 0
      [] op = "OR"  -> IF x = 1 \/ y = 1 THEN 1 ELSE 0
      [] op = "XOR" -> IF x # y THEN 1 ELSE 0

ByteOp(op, x, y) == ByteFromBits([i \in 0..7 |-> BitFn(op, BitAt(x, i), BitAt(y, i))])

ByteAt(buf, j) == IF j <= Len(buf) THEN buf[j] ELSE 0

RECURSIVE PopByte(_)
PopByte(x) == IF x = 0 THEN 0 ELSE (x % 2) + PopByte(x \div 2)

RECURSIVE MaxLen(_)
MaxLen(bufs) == IF bufs = << >> THEN 0 ELSE Max(Len(Head(bufs)), MaxLen(Tail(bufs)))

\* ------------------------------------------------- the store's commands
\* A command, as the client sends it; unused fields keep their defaults.
Cmd(name, key, srcs, op, off, val) ==
    [name |-> name, key |-> key, srcs |-> srcs, op |-> op, off |-> off, val |-> val]
SETBIT(key, off, val) == Cmd("SETBIT", key, << >>, "", off, val)
GET(key) == Cmd("GET", key, << >>, "", 0, 0)
MGET(keys) == Cmd("MGET", "", keys, "", 0, 0)
BITOP(op, dest, srcs) == Cmd("BITOP", dest, srcs, op, 0, 0)
BITCOUNT(key) == Cmd("BITCOUNT", key, << >>, "", 0, 0)
DEL(key) == Cmd("DEL", key, << >>, "", 0, 0)

\* A reply of the store, as the client hands it to a callback.
Nil == [t |-> "nil", n |-> 0, b |-> << >>, l |-> << >>]
IntR(n) == [t |-> "int", n |-> n, b |-> << >>, l |-> << >>]
BufR(b) == [t |-> "buf", n |-> 0, b |-> b, l |-> << >>]
ErrR == [t |-> "err", n |-> 0, b |-> << >>, l |-> << >>]
ListR(l) == [t |-> "list", n |-> 0, b |-> << >>, l |-> l]

\* GET and each entry of MGET: the raw bytes, nil for an absent key
BulkOf(buf) == IF buf = << >> THEN Nil ELSE BufR(buf)

\* SETBIT: the value is zero-extended to hold the offset
SetBitBuf(buf, off, val) ==
    LET ix == (off \div 8) + 1
        padded == buf \o Zeros(ix - Len(buf))
        old == BitAt(padded[ix], off % 8)
    IN [buf |-> [padded EXCEPT ![ix] = @ + (val - old) * Pow2(7 - (off % 8))],
        old |-> old]

\* BITOP AND/OR/XOR: byte-wise over the sources, shorter ones zero-extended
RECURSIVE FoldBytes(_, _, _)
FoldBytes(op, bufs, j) ==
    IF Len(bufs) = 1 THEN ByteAt(bufs[1], j)
    ELSE ByteOp(op, ByteAt(Head(bufs), j), FoldBytes(op, Tail(bufs), j))

BitopBuf(op, bufs) ==
    IF op = "NOT" THEN [j \in 1..Len(bufs[1]) |-> 255 - bufs[1][j]]
    ELSE [j \in 1..MaxLen(bufs) |-> FoldBytes(op, bufs, j)]

\* queue-time check of the store: BITOP needs at least one source key
ArityOK(c) == c.name = "BITOP" => Len(c.srcs) >= 1

\* One command on the store st: the new store and the reply.
ExecCmd(st, c) ==
    CASE c.name = "SETBIT" ->
           LET r == SetBitBuf(st[c.key], c.off, c.val)
           IN [st |-> [st EXCEPT ![c.key] = r.buf], r |-> IntR(r.old)]
      [] c.name = "GET" -> [st |-> st, r |-> BulkOf(st[c.key])]
      [] c.name = "MGET" ->
           [st |-> st, r |-> ListR([i \in 1..Len(c.srcs) |-> BulkOf(st[c.srcs[i]])])]
      [] c.name = "BITCOUNT" ->
           IF c.srcs # << >> THEN [st |-> st, r |-> ErrR]
           ELSE [st |-> st,
                 r |-> IntR(SumSeq([j \in 1..Len(st[c.key]) |-> PopByte(st[c.key][j])]))]
      [] c.name = "DEL" ->
           [st |-> [st EXCEPT ![c.key] = << >>],
            r |-> IntR(IF st[c.key] = << >> THEN 0 ELSE 1)]
      [] c.name = "BITOP" ->
           IF ~ArityOK(c) \/ (c.op = "NOT" /\ Len(c.srcs) # 1)
           THEN [st |-> st, r |-> ErrR]
           ELSE LET res == BitopBuf(c.op, [i \in 1..Len(c.srcs) |-> st[c.srcs[i]]])
                IN [st |-> [st EXCEPT ![c.key] = res], r |-> IntR(Len(res))]

\* MULTI ... EXEC: the queued commands one after the other, nothing between
RECURSIVE ExecBatch(_, _)
ExecBatch(st, cmds) ==
    IF cmds = << >> THEN [st |-> st, l |-> << >>]
    ELSE LET one == ExecCmd(st, Head(cmds))
             rest == ExecBatch(one.st, Tail(cmds))
         IN [st |-> rest.st, l |-> <<one.r>> \o rest.l]

\* EXEC is refused as a whole when a command was rejected at queue time
ExecMulti(st, cmds) ==
    IF \E i \in 1..Len(cmds) : ~ArityOK(cmds[i])
    THEN [st |-> st, r |-> ErrR, ran |-> << >>]
    ELSE LET b == ExecBatch(st, cmds) IN [st |-> b.st, r |-> ListR(b.l), ran |-> cmds]

\* ------------------------------------------------------------------ state
VARIABLES
    store,      \* the store: key -> bytes, << >> for an absent key
    sendq,      \* main client: requests written to the connection, in order
    recvq,      \* main client: replies received, callbacks not yet run
    delivered,  \* the outcome of the callback that ran last
    log,        \* history: the commands the store executed, in order
    ncalls,     \* number of API calls made on the main client
    nother,     \* number of commands of the other client
    sess,       \* the Aggregate session of the main client
    sets,       \* history: per key, the offsets set since it was absent
    client,     \* the redis client: its options, its listeners, what was built on it
    ba          \* a BitArray used on its own, and what was computed from it

vars == <<store, sendq, recvq, delivered, log, ncalls, nother, sess, sets, client, ba>>

\* no BitArray was made (ran: the functions applied so far, nset: the number
\* of set calls, top: the greatest index a set call was given; all history)
NoBitArray ==
    [buffer |-> << >>, bits |-> << >>, fromBuffer |-> 0, fromArray |-> 0, ran |-> {},
     card |-> << >>, args |-> << >>, and |-> << >>, or |-> << >>, xor |-> << >>,
     str |-> << >>, nset |-> 0, top |-> -1]

\* ----------------------------------------------------- values of callbacks
None == [k |-> "none", n |-> 0, buffer |-> << >>, bits |-> << >>, l |-> << >>]
IntV(n) == [k |-> "int", n |-> n, buffer |-> << >>, bits |-> << >>, l |-> << >>]
RawV(l) == [k |-> "raw", n |-> 0, buffer |-> << >>, bits |-> << >>, l |-> l]
ListV(l) == [k |-> "list", n |-> 0, buffer |-> << >>, bits |-> << >>, l |-> l]

\* new BitArray(buf): keeps the buffer and its decoded bits
BitArray(buf) ==
    [k |-> "BitArray", n |-> 0, buffer |-> buf, bits |-> CastFromBuffer(buf), l |-> << >>]

\* castFromBuffer reads buf.length: a null reply makes the constructor throw
BitArrayThrows(reply) == reply.t # "buf"

\* what a callback did: called next(err, val), or threw before calling it
Called(err, val) == [out |-> "cb", err |-> err, val |-> val]
Threw == [out |-> "throw", err |-> FALSE, val |-> None]

\* --------------------------------------------------------- Bitmap (facade)
\* an API call, as the caller made it
\* (fn: the method; cb: the callback it registered; cmd, op, keys: its arguments)
Call(fn, cb, cmd, op, keys, clean) ==
    [fn |-> fn, cb |-> cb, cmd |-> cmd, op |-> op, keys |-> keys, clean |-> clean]

\* a request on the connection: one command, or a MULTI batch with its EXEC
\* (acc: replies of the commands already executed; behind: history, the number
\* of earlier requests whose callback had not run when this one was written)
Item(id, multi, cmds, call, behind) ==
    [id |-> id, multi |-> multi, cmds |-> cmds, call |-> call, acc |-> << >>,
     behind |-> behind, psets |-> << >>]

\* (mutant) the value is passed on negated
SetbitCmdsNegated(key, off, val) == <<SETBIT(key, off, IF val # 0 THEN 0 ELSE 1)>>

\* Bitmap.prototype.setbit
SetbitCmds(key, off, val) == <<SETBIT(key, off, IF val # 0 THEN 1 ELSE 0)>>

\* (mutant) MGET only from three keys on
GetCmdsFromThree(keys) == IF Len(keys) > 2 THEN <<MGET(keys)>> ELSE <<GET(keys[1])>>

\* Bitmap.prototype.get: MGET for several keys, GET for one
GetCmds(keys) == IF Len(keys) > 1 THEN <<MGET(keys)>> ELSE <<GET(keys[1])>>

\* the callback of Bitmap.prototype.get
\* (mutant) an error of the store is answered with an empty BitArray
GetCallbackErrAsEmpty(reply) ==
    IF reply.t = "list"
    THEN IF \E i \in 1..Len(reply.l) : BitArrayThrows(reply.l[i])
         THEN Threw
         ELSE Called(FALSE, ListV([i \in 1..Len(reply.l) |-> BitArray(reply.l[i].b)]))
    ELSE IF reply.t = "err" THEN Called(FALSE, BitArray(<< >>))
    ELSE IF BitArrayThrows(reply) THEN Threw
    ELSE Called(FALSE, BitArray(reply.b))

GetCallback(reply) ==
    IF reply.t = "err" THEN Called(TRUE, None)
    ELSE IF reply.t = "list"
         THEN IF \E i \in 1..Len(reply.l) : BitArrayThrows(reply.l[i])
              THEN Threw
              ELSE Called(FALSE, ListV([i \in 1..Len(reply.l) |-> BitArray(reply.l[i].b)]))
         ELSE IF BitArrayThrows(reply) THEN Threw
              ELSE Called(FALSE, BitArray(reply.b))

\* the read command of a derived operation
ReadCmd(cmd, dest) == IF cmd = "GET" THEN GET(dest) ELSE BITCOUNT(dest)

\* (mutant) xor asks the store for OR
MethodOpXorAsOr(m) ==
    CASE m = "xor" -> "OR" [] m = "or" -> "OR" [] m = "and" -> "AND" [] m = "not" -> "NOT"

\* xor/difference, or/union, and/intersect, not/reverse: getBitop with their op
MethodOp(m) ==
    CASE m = "xor" -> "XOR" [] m = "or" -> "OR" [] m = "and" -> "AND" [] m = "not" -> "NOT"

\* (mutant) the three commands are sent one by one, outside a MULTI batch
TmpBitopNoMulti == FALSE

\* Bitmap.prototype.tmpBitop with a callback opens a MULTI batch on the client
TmpBitopMulti == TRUE

\* (mutant) the batch ends with the read: the scratch key is not deleted
TmpBitopCmdsKeepDest(cmd, op, keys, dest) == <<BITOP(op, dest, keys), ReadCmd(cmd, dest)>>

\* Bitmap.prototype.tmpBitop with a callback: the batch it submits
TmpBitopCmds(cmd, op, keys, dest) == <<BITOP(op, dest, keys), ReadCmd(cmd, dest), DEL(dest)>>

\* (mutant) the callback takes the last reply of the batch, that of DEL
TmpBitopCallbackLast(cmd, reply) ==
    IF reply.t = "err" THEN Called(TRUE, None)
    ELSE LET resp == reply.l[Len(reply.l)]
         IN IF cmd = "GET"
            THEN IF BitArrayThrows(resp) THEN Threw ELSE Called(FALSE, BitArray(resp.b))
            ELSE Called(FALSE, IntV(resp.n))

\* the exec callback of Bitmap.prototype.tmpBitop
TmpBitopCallback(cmd, reply) ==
    IF reply.t = "err" THEN Called(TRUE, None)
    ELSE IF reply.t = "nil" THEN Threw
    ELSE LET resp == reply.l[Len(reply.l) - 1]
         IN IF cmd = "GET"
            THEN IF BitArrayThrows(resp) THEN Threw ELSE Called(FALSE, BitArray(resp.b))
            ELSE Called(FALSE, IntV(resp.n))

\* a callback the caller passed straight to the client (setbit, one-key count)
RawCallback(reply) ==
    IF reply.t = "err" THEN Called(TRUE, None) ELSE Called(FALSE, IntV(reply.n))

\* (mutant) the callback is not counted among the arguments
CountDirectKeysOnly(keys) == Len(keys) < 3

\* Bitmap.prototype.bitcount: a single key goes straight to BITCOUNT
CountDirect(keys) == Len(keys) + 1 < 3

\* ------------------------------------------------------------- Aggregate
\* a chained call, as the caller made it (history)
Chained(m, op, key, keys, off, val) ==
    [m |-> m, op |-> op, key |-> key, keys |-> keys, off |-> off, val |-> val]

\* (state, chain, threw, sent, late and rejected are history; the rest are the
\* fields of the object. sent: the batch and the cleanup flag of the first exec;
\* late: the calls made after it; rejected: those of them that failed)
NoSession ==
    [state |-> "none", dest |-> "", queue |-> << >>, lastCmd |-> "",
     isRunning |-> FALSE, cleanup |-> FALSE, chain |-> << >>, threw |-> FALSE,
     sent |-> << >>, late |-> 0, rejected |-> 0, seen |-> None,
     conf |-> [bitmap |-> "", arg |-> ""]]

\* (mutant) the session always works on the default key
AggregateOnDefault(dest) == [NoSession EXCEPT !.state = "open", !.dest = "bitmap:tmp"]

\* Bitmap.prototype.aggregate and the Aggregate constructor: dest || 'bitmap:tmp'
Aggregate(dest) ==
    [NoSession EXCEPT !.state = "open", !.dest = IF dest = "" THEN "bitmap:tmp" ELSE dest]

\* (mutant) the command is put at the front of the batch
AggrSetbitFirst(s, key, off, val) == [s EXCEPT !.queue = SetbitCmds(key, off, val) \o @]

\* Bitmap.prototype.setbit on a session: queued on the batch
AggrSetbit(s, key, off, val) == [s EXCEPT !.queue = @ \o SetbitCmds(key, off, val)]

\* (mutant) the destination is never added to the sources
AggrBitopAlone(s, op, dest, keys) ==
    [s EXCEPT !.queue = Append(@, BITOP(op, dest, keys)), !.isRunning = TRUE]

\* (mutant) the destination is among the sources from the first BITOP on
AggrBitopAlways(s, op, dest, keys) ==
    [s EXCEPT !.queue = Append(@, BITOP(op, dest, keys \o <<s.dest>>)), !.isRunning = TRUE]

\* Bitmap.prototype.bitop through the session's bitop shim: the destination is
\* appended to the sources once the session is running; the shim then marks it
AggrBitop(s, op, dest, keys) ==
    LET srcs == IF s.isRunning /\ s.dest # "" THEN keys \o <<s.dest>> ELSE keys
    IN [s EXCEPT !.queue = Append(@, BITOP(op, dest, srcs)), !.isRunning = TRUE]

\* Bitmap.prototype.tmpBitop without a callback: bitop into the session's dest
AggrTmpBitop(s, op, keys) == AggrBitop(s, op, s.dest, keys)

\* (mutant) the first terminal command is kept
AggrReduceFirstWins(s, op, keys) ==
    [AggrTmpBitop(s, op, keys) EXCEPT !.lastCmd = IF s.lastCmd = "" THEN "GET" ELSE s.lastCmd]

\* the shims of xor/difference, or/union, and/intersect
AggrReduce(s, op, keys) == [AggrTmpBitop(s, op, keys) EXCEPT !.lastCmd = "GET"]

\* Bitmap.prototype.not on a session (no shim of its own)
AggrNot(s, keys) == AggrTmpBitop(s, "NOT", keys)

\* Bitmap.prototype.bitcount on a session
AggrCount(s, keys) == AggrTmpBitop([s EXCEPT !.lastCmd = "BITCOUNT"], "OR", keys)

\* Aggregate.prototype.clean(toggle); toggle "" stands for no argument
AggrClean(s, toggle) == [s EXCEPT !.cleanup = IF toggle = "" THEN TRUE ELSE toggle = "true"]

\* Aggregate.prototype.exec: cmd.toUpperCase() on a missing lastCmd throws
AggrExecThrows(s) == s.lastCmd = ""

\* (mutant) the cleanup is left out of the batch
AggrExecQueueNoDel(s) ==
    IF s.dest # "" /\ s.lastCmd # "" THEN s.queue \o <<ReadCmd(s.lastCmd, s.dest)>> ELSE s.queue

\* (mutant) exec deletes the destination whether or not clean() was called
AggrExecQueueAlwaysDel(s) ==
    IF s.dest # "" /\ s.lastCmd # ""
    THEN s.queue \o <<ReadCmd(s.lastCmd, s.dest), DEL(s.dest)>>
    ELSE s.queue

\* Aggregate.prototype.exec: the terminal read and the cleanup join the batch
AggrExecQueue(s) ==
    IF s.dest # "" /\ s.lastCmd # ""
    THEN s.queue \o <<ReadCmd(s.lastCmd, s.dest)>>
                 \o (IF s.cleanup THEN <<DEL(s.dest)>> ELSE << >>)
    ELSE s.queue

\* (mutant) the payload is always the last reply of the batch
AggrExecCallbackLast(clean, cmd, reply) ==
    IF reply.t = "err" THEN Called(TRUE, None)
    ELSE LET resp == reply.l[Len(reply.l)]
         IN IF cmd = "GET" /\ resp.t = "buf" THEN Called(FALSE, BitArray(resp.b))
            ELSE IF resp.t = "int" THEN Called(FALSE, IntV(resp.n))
            ELSE Called(FALSE, None)

\* the callback Aggregate.prototype.exec hands to the batch
AggrExecCallback(clean, cmd, reply) ==
    IF reply.t = "err" THEN Called(TRUE, None)
    ELSE IF reply.t = "nil" THEN Called(FALSE, None)
    ELSE LET resp == reply.l[Len(reply.l) - (IF clean THEN 2 ELSE 1) + 1]
         IN IF cmd = "GET" /\ resp.t = "buf" THEN Called(FALSE, BitArray(resp.b))
            ELSE IF resp.t = "int" THEN Called(FALSE, IntV(resp.n))
            ELSE Called(FALSE, None)

\* ------------------------------------------------ connection and callbacks
\* the callback of an API call, run on the reply of its request
RunCallback(call, reply) ==
    CASE call.cb = "get" -> GetCallback(reply)
      [] call.cb = "tmpBitop" -> TmpBitopCallback(call.cmd, reply)
      [] call.cb = "exec" -> AggrExecCallback(call.clean, call.cmd, reply)
      [] OTHER -> RawCallback(reply)

\* redis.createClient(port, host, options), before anything was built on it
\* (ver: the version of lib/bitmap.js in use; ctors, text: history; pending:
\* history, the memoryCardinality calls whose callback has not been called)
CreateClient(ver, return_buffers, detect_buffers, ready) ==
    [ver |-> ver,
     options |-> [return_buffers |-> return_buffers, detect_buffers |-> detect_buffers],
     ready |-> ready, listeners |-> 0, ctors |-> << >>, inflight |-> << >>,
     gets |-> 0, text |-> FALSE, pending |-> << >>]

\* the client of test.js: {return_buffers: true}
TestClient == CreateClient("part_002", TRUE, FALSE, FALSE)

NoCall == Call("", "none", "", "", << >>, FALSE)
EmptyStore == [k \in Keys |-> << >>]

Init ==
    /\ store \in InitStores
    /\ sendq = << >>
    /\ recvq = << >>
    /\ delivered = [id |-> 0, call |-> NoCall, res |-> Threw, pre |-> EmptyStore,
                    post |-> EmptyStore, now |-> EmptyStore,
                    psets |-> [k \in Keys |-> [pure |-> FALSE, S |-> {}]], behind |-> 0,
                    reply |-> Nil]
    /\ log = << >>
    /\ ncalls = 0
    /\ nother = 0
    /\ sess = NoSession
    /\ sets = [k \in Keys |-> [pure |-> store[k] = << >>, S |-> {}]]
    /\ client = TestClient
    /\ ba = NoBitArray

\* the main client writes a request to its connection
Send(cmds, multi, call, max) ==
    /\ ncalls < max
    /\ ncalls' = ncalls + 1
    /\ sendq' = Append(sendq, [Item(ncalls + 1, multi, cmds, call, Len(sendq) + Len(recvq))
                                EXCEPT !.psets = sets])

\* The store executes the next request of the main client: a MULTI batch as a
\* whole, a command sent outside a batch on its own.
Serve ==
    /\ sendq # << >>
    /\ LET it == Head(sendq)
       IN \E r \in {IF it.multi THEN ExecMulti(store, it.cmds)
                    ELSE [st |-> ExecCmd(store, it.cmds[1]).st,
                          r |-> ExecCmd(store, it.cmds[1]).r, ran |-> <<it.cmds[1]>>]} :
          /\ store' = r.st
          /\ log' = log \o [i \in 1..Len(r.ran) |-> [id |-> it.id, cmd |-> r.ran[i]]]
          /\ IF ~it.multi /\ Len(it.cmds) > 1
             THEN /\ sendq' = <<[it EXCEPT !.cmds = Tail(@), !.acc = Append(@, r.r)]>>
                                \o Tail(sendq)
                  /\ recvq' = recvq
             ELSE /\ sendq' = Tail(sendq)
                  /\ recvq' =
                       IF it.call.cb = "none" THEN recvq
                       ELSE Append(recvq,
                              [id |-> it.id, call |-> it.call,
                               reply |-> IF it.acc = << >> THEN r.r
                                         ELSE ListR(Append(it.acc, r.r)),
                               pre |-> store, post |-> r.st, psets |-> it.psets,
                               behind |-> it.behind])
    /\ UNCHANGED <<ba, client, delivered, ncalls, nother, sess, sets>>

\* the main client runs the callback of the next reply
Deliver ==
    /\ recvq # << >>
    /\ LET e == Head(recvq)
       IN delivered' = [id |-> e.id, call |-> e.call, res |-> RunCallback(e.call, e.reply),
                        pre |-> e.pre, post |-> e.post, now |-> store,
                        psets |-> e.psets, behind |-> e.behind, reply |-> e.reply]
    /\ recvq' = Tail(recvq)
    /\ UNCHANGED <<ba, client, store, sendq, log, ncalls, nother, sess, sets>>

\* The store refuses the next request of the main client (a command while the
\* store is loading or out of memory, a batch aborted at EXEC): nothing runs.
Refuse(reply) ==
    /\ sendq # << >>
    /\ LET it == Head(sendq)
       IN recvq' = IF it.call.cb = "none" THEN recvq
                   ELSE Append(recvq, [id |-> it.id, call |-> it.call, reply |-> reply,
                                       pre |-> store, post |-> store, psets |-> it.psets,
                                       behind |-> it.behind])
    /\ sendq' = Tail(sendq)
    /\ UNCHANGED <<ba, client, store, delivered, log, ncalls, nother, sess, sets>>

ServeErr == Refuse(ErrR)

\* EXEC answers a batch with a nil reply when a key the connection watched was
\* written: the batch is not run
ServeNil == sendq # << >> /\ Head(sendq).multi /\ Refuse(Nil)

\* another client of the same store runs one command
OtherCmds == {SETBIT(k, 9, 1) : k \in Keys}

Other(cmds) ==
    /\ nother < MaxOther
    /\ \E c \in cmds :
        /\ store' = ExecCmd(store, c).st
        /\ log' = Append(log, [id |-> 0, cmd |-> c])
        /\ sets' = [sets EXCEPT ![c.key].pure = FALSE]
    /\ nother' = nother + 1
    /\ UNCHANGED <<ba, client, sendq, recvq, delivered, ncalls, sess>>

\* ---- the facade's calls
\* setbit / set / save
FSet(max, cbs) ==
    \E k \in {"a", "b"}, o \in Offsets, v \in {0, 1}, cb \in cbs :
        /\ Send(SetbitCmds(k, o, v), FALSE, Call("set", cb, "", "", <<k>>, FALSE), max)
        /\ sets' = IF v = 1 THEN [sets EXCEPT ![k].S = @ \cup {o}]
                   ELSE [sets EXCEPT ![k].pure = FALSE]
        /\ UNCHANGED <<ba, client, store, recvq, delivered, log, nother, sess>>

\* get / mget / load with a callback
FGet(lists, max) ==
    \E keys \in lists :
        /\ Send(GetCmds(keys), FALSE, Call("get", "get", "", "", keys, FALSE), max)
        /\ UNCHANGED <<ba, client, store, recvq, delivered, log, nother, sess, sets>>

\* the derived operations with a callback: xor, or, and, not (through getBitop)
\* and countBitop, all through tmpBitop
FTmpBitopOn(lists, max) ==
    \E m \in {"xor", "or", "and", "not", "countBitop"}, cop \in Ops, keys \in lists :
        /\ m # "countBitop" => cop = "AND"
        /\ LET cmd == IF m = "countBitop" THEN "BITCOUNT" ELSE "GET"
               op == IF m = "countBitop" THEN cop ELSE MethodOp(m)
           IN Send(TmpBitopCmds(cmd, op, keys, Scratch), TmpBitopMulti,
                   Call(m, "tmpBitop", cmd, op, keys, FALSE), max)
        /\ sets' = [sets EXCEPT ![Scratch].pure = FALSE]
        /\ UNCHANGED <<ba, client, store, recvq, delivered, log, nother, sess>>

FTmpBitop == FTmpBitopOn(KeyLists, MaxCalls)

\* count / bitcount / population / cardinality with a callback
FCount(lists, max) ==
    \E keys \in lists :
        /\ IF CountDirect(keys)
           THEN /\ Send(<<BITCOUNT(keys[1])>>, FALSE,
                        Call("count", "raw", "", "", keys, FALSE), max)
                /\ sets' = sets
           ELSE /\ Send(TmpBitopCmds("BITCOUNT", "OR", keys, Scratch), TmpBitopMulti,
                        Call("count", "tmpBitop", "BITCOUNT", "OR", keys, FALSE), max)
                /\ sets' = [sets EXCEPT ![Scratch].pure = FALSE]
        /\ UNCHANGED <<ba, client, store, recvq, delivered, log, nother, sess>>

Next ==
    \/ FSet(MaxCalls, {"none"})
    \/ FGet(KeyLists, MaxCalls)
    \/ FTmpBitop
    \/ FCount(KeyLists, MaxCalls)
    \/ Other(OtherCmds)
    \/ Serve
    \/ Deliver

Spec == Init /\ [][Next]_vars

\* set, get and count of single keys, called more often
OneKey == {<<"a">>, <<"b">>}

NextSet ==
    \/ FSet(MaxSetCalls, {"raw"})
    \/ FGet(OneKey, MaxSetCalls)
    \/ FCount(OneKey, MaxSetCalls)
    \/ Serve
    \/ Deliver

SpecSet == Init /\ [][NextSet]_vars

\* ---- the calls on an Aggregate session
\* the session has been opened and exec has not been called on it
Open == sess.state = "open"
CanChain == Open /\ Len(sess.chain) < MaxChain

\* a chained call changes the session only: its batch is not on the connection
Chain(s, call) ==
    /\ CanChain
    /\ sess' = [s EXCEPT !.chain = Append(@, call)]
    /\ UNCHANGED <<ba, client, store, sendq, recvq, delivered, log, ncalls, nother, sets>>

\* aggregate([dest]) on the Bitmap
ABegin ==
    /\ sess.state = "none"
    /\ \E dest \in {"", "a"} : sess' = Aggregate(dest)
    /\ UNCHANGED <<ba, client, store, sendq, recvq, delivered, log, ncalls, nother, sets>>

\* the set calls and the reductions a session chains
AggrSets == {<<"a", 9>>, <<"b", 0>>}
AggrReductions == {<<"xor", <<"a", "b">>>>, <<"or", <<"b">>>>, <<"and", <<"a", "b">>>>}

ASet ==
    \E a \in AggrSets :
        Chain(AggrSetbit(sess, a[1], a[2], 1), Chained("set", "", a[1], << >>, a[2], 1))

AReduce ==
    \E a \in AggrReductions :
        Chain(AggrReduce(sess, MethodOp(a[1]), a[2]),
              Chained(a[1], MethodOp(a[1]), "", a[2], 0, 0))

ANot == Chain(AggrNot(sess, <<"b">>), Chained("not", "NOT", "", <<"b">>, 0, 0))

ACount ==
    \E keys \in {<< >>, <<"b">>} :
        Chain(AggrCount(sess, keys), Chained("count", "OR", "", keys, 0, 0))

\* bitop(op, dest, keys...) with an explicit destination
ABitop ==
    \E dest \in {"b", Scratch} :
        Chain(AggrBitop(sess, "OR", dest, <<"a">>), Chained("bitop", "OR", dest, <<"a">>, 0, 0))

AClean ==
    /\ Open
    /\ \E toggle \in {"", "false"} : sess' = AggrClean(sess, toggle)
    /\ UNCHANGED <<ba, client, store, sendq, recvq, delivered, log, ncalls, nother, sets>>

\* exec(callback): throws on a session without a terminal command, else submits
AExec ==
    /\ Open
    /\ IF AggrExecThrows(sess)
       THEN /\ ~sess.threw
            /\ sess' = [sess EXCEPT !.threw = TRUE]
            /\ UNCHANGED <<ba, client, sendq, ncalls>>
       ELSE /\ Send(AggrExecQueue(sess), TRUE,
                    Call("exec", "exec", sess.lastCmd, "", << >>, sess.cleanup), MaxCalls)
            /\ sess' = [sess EXCEPT !.state = "final", !.queue = AggrExecQueue(sess),
                                     !.sent = <<AggrExecQueue(sess), sess.cleanup>>]
    /\ UNCHANGED <<ba, client, store, recvq, delivered, log, nother, sets>>

\* exec's callback ran and got a result
ExecDelivered ==
    delivered.call.cb = "exec" /\ delivered.res.out = "cb" /\ ~delivered.res.err

\* ---- calls on a session after exec: no method looks at whether exec was called
Final == sess.state = "final"

\* a chain method called after exec: it returns the session as before exec
ALateChain ==
    /\ Final /\ sess.late < MaxLate
    /\ \E s \in {AggrSetbit(sess, "a", 9, 1), AggrReduce(sess, MethodOp("or"), <<"b">>),
                  AggrCount(sess, <<"b">>), AggrClean(sess, ""), AggrClean(sess, "false")} :
          sess' = [s EXCEPT !.late = @ + 1]
    /\ UNCHANGED <<ba, client, store, sendq, recvq, delivered, log, ncalls, nother, sets>>

\* exec called again: the terminal read and the cleanup are appended once more
\* and the batch is submitted again
ALateExec ==
    /\ Final /\ sess.late < MaxLate
    /\ Send(AggrExecQueue(sess), TRUE,
            Call("exec", "exec", sess.lastCmd, "", << >>, sess.cleanup), MaxCalls)
    /\ sess' = [sess EXCEPT !.queue = AggrExecQueue(sess), !.late = @ + 1]
    /\ UNCHANGED <<ba, client, store, recvq, delivered, log, nother, sets>>

NextLate ==
    \/ ABegin \/ AReduce \/ AClean \/ AExec \/ ALateChain \/ ALateExec \/ Serve \/ Deliver

SpecLate == Init /\ [][NextLate]_vars

\* the other client writes the destination of the session
OnDest == IF sess.state = "none" THEN {} ELSE {SETBIT(sess.dest, 9, 1)}

\* ---- the caller counts the destination once exec delivered without cleanup,
\* as test.js does from the callback of exec (seen: what exec delivered)
ALaterCount ==
    /\ ExecDelivered /\ ~delivered.call.clean
    /\ CountDirect(<<sess.dest>>)
    /\ Send(<<BITCOUNT(sess.dest)>>, FALSE,
            Call("count", "raw", "", "", <<sess.dest>>, FALSE), MaxCalls)
    /\ sess' = [sess EXCEPT !.seen = delivered.res.val]
    /\ UNCHANGED <<ba, client, store, recvq, delivered, log, nother, sets>>

\* new Bitmap(client, options): this.dest = options.destination || 'bitmap:tmp'
BitmapDest(destination) == IF destination = "" THEN "bitmap:tmp" ELSE destination

\* aggregate([dest]) on a Bitmap built with or without options.destination
\* (conf: the scratch key of the Bitmap and the argument of the call, history)
AConfBegin ==
    /\ sess.state = "none"
    /\ \E destination \in {"", "a"}, dest \in {"", "b"} :
          sess' = [Aggregate(dest) EXCEPT !.conf = [bitmap |-> BitmapDest(destination),
                                                    arg |-> dest]]
    /\ UNCHANGED <<ba, client, store, sendq, recvq, delivered, log, ncalls, nother, sets>>

NextConf == AConfBegin \/ AReduce \/ AClean \/ AExec \/ Serve \/ Deliver

SpecConf == Init /\ [][NextConf]_vars

\* bitop(op, dest, keys...) without a callback on the Bitmap itself: a session
\* on dest is made and the call is repeated on it
FBitop ==
    /\ sess.state = "none"
    /\ \E op \in {"OR", "AND"}, dest \in {"b", Scratch} :
          sess' = [AggrBitop(Aggregate(dest), op, dest, <<"a">>)
                     EXCEPT !.chain = <<Chained("bitop", op, dest, <<"a">>, 0, 0)>>]
    /\ UNCHANGED <<ba, client, store, sendq, recvq, delivered, log, ncalls, nother, sets>>

NextAfter ==
    \/ ABegin \/ FBitop \/ ASet \/ AReduce \/ ACount \/ AExec \/ ALaterCount
    \/ Other(OnDest) \/ Serve \/ Deliver

SpecAfter == Init /\ [][NextAfter]_vars

\* calls with any number of keys, on a store that may refuse a request
AnyKeys == {<< >>, <<"a">>, <<"a", "b">>}

NextErr ==
    \/ FGet(OneKey, MaxErrCalls)
    \/ FTmpBitopOn(AnyKeys, MaxErrCalls)
    \/ ABegin \/ AReduce \/ AExec
    \/ Serve
    \/ ServeErr
    \/ ServeNil
    \/ Deliver

SpecErr == Init /\ [][NextErr]_vars

NextAggr ==
    \/ ABegin \/ ASet \/ AReduce \/ ANot \/ ACount \/ ABitop \/ AClean \/ AExec
    \/ Other(OnDest) \/ Serve \/ Deliver

SpecAggr == Init /\ [][NextAggr]_vars

\* ------------------------------------------- constructor and client options
\* one call of the Bitmap constructor (history): the options it found and left,
\* how it ended, whether it stored the client and registered a ready listener
Ctor(before, after, out, stored, listened) ==
    [before |-> before, after |-> after, out |-> out, stored |-> stored,
     listened |-> listened]

\* the Bitmap constructor of part_002: throws unless return_buffers is set
Bitmap002(c) ==
    IF ~c.options.return_buffers
    THEN [c EXCEPT !.ctors = Append(@, Ctor(c.options, c.options, "throw", FALSE, FALSE))]
    ELSE [c EXCEPT !.ctors = Append(@, Ctor(c.options, c.options, "ok", TRUE, ~c.ready)),
                   !.listeners = IF c.ready THEN @ ELSE @ + 1]

\* the Bitmap constructor of lib/bitmap.js: switches detect_buffers on
BitmapLib(c) ==
    LET opts == [c.options EXCEPT !.detect_buffers = TRUE]
    IN [c EXCEPT !.options = opts,
                 !.ctors = Append(@, Ctor(c.options, opts, "ok", TRUE, ~c.ready)),
                 !.listeners = IF c.ready THEN @ ELSE @ + 1]

\* a Bitmap has been built on the client
Built == \E i \in 1..Len(client.ctors) : client.ctors[i].out = "ok"

\* Aggregate.prototype.exec of lib/bitmap.js: the options shim on the main
\* client; the callback puts the saved options back when the session has a
\* destination and a terminal command
ExecShim(c, restore) ==
    [c EXCEPT !.inflight = Append(@, [opt |-> c.options, restore |-> restore]),
              !.options = [return_buffers |-> TRUE, detect_buffers |-> FALSE]]

\* Aggregate.prototype.exec of part_002 leaves the options alone
ExecPlain(c) == [c EXCEPT !.inflight = Append(@, [opt |-> c.options, restore |-> FALSE])]

\* does the client hand out text for the reply of a command with Buffer keys,
\* and for the reply of a MULTI batch (which does not honor detect_buffers)
ReplyIsText(o) == ~o.return_buffers /\ ~o.detect_buffers
MultiReplyIsText(o) == ~o.return_buffers

OnlyClient == UNCHANGED <<ba, store, sendq, recvq, delivered, log, ncalls, nother, sess, sets>>

\* new Bitmap(client)
NewBitmap ==
    /\ Len(client.ctors) < MaxBitmaps
    /\ client' = IF client.ver = "part_002" THEN Bitmap002(client) ELSE BitmapLib(client)
    /\ OnlyClient

\* the client emits ready
ClientReady ==
    /\ ~client.ready
    /\ client' = [client EXCEPT !.ready = TRUE, !.listeners = 0]
    /\ OnlyClient

\* exec is called on a session of a Bitmap
ExecCall ==
    /\ Built
    /\ Len(client.inflight) < MaxExecs
    /\ \E restore \in BOOLEAN :
          client' = IF client.ver = "part_002" THEN ExecPlain(client)
                    ELSE ExecShim(client, restore)
    /\ OnlyClient

\* the reply of the oldest batch arrives and its callback runs
ExecReply ==
    /\ client.inflight # << >>
    /\ LET h == Head(client.inflight)
       IN client' = [client EXCEPT !.inflight = Tail(@),
                                   !.text = @ \/ MultiReplyIsText(client.options),
                                   !.options = IF h.restore THEN h.opt ELSE @]
    /\ OnlyClient

\* a Bitmap reads a key and its reply arrives
GetReply ==
    /\ Built
    /\ client.gets < MaxGets
    /\ client' = [client EXCEPT !.gets = @ + 1,
                                !.text = @ \/ ReplyIsText(client.options)]
    /\ OnlyClient

InitCtor ==
    /\ store = EmptyStore
    /\ sendq = << >>
    /\ recvq = << >>
    /\ delivered = [id |-> 0, call |-> NoCall, res |-> Threw, pre |-> EmptyStore,
                    post |-> EmptyStore, now |-> EmptyStore,
                    psets |-> [k \in Keys |-> [pure |-> FALSE, S |-> {}]], behind |-> 0,
                    reply |-> Nil]
    /\ log = << >>
    /\ ncalls = 0
    /\ nother = 0
    /\ sess = NoSession
    /\ sets = [k \in Keys |-> [pure |-> TRUE, S |-> {}]]
    /\ \E ver \in {"part_002", "lib"}, rb \in BOOLEAN, db \in BOOLEAN, ready \in BOOLEAN :
          client = CreateClient(ver, rb, db, ready)
    /\ ba = NoBitArray

NextCtor == NewBitmap \/ ClientReady \/ ExecCall \/ ExecReply \/ GetReply

SpecCtor == InitCtor /\ [][NextCtor]_vars

\* ------------------------------------------ what the claims speak about
\* the offsets that are set in a stored value (offset 0 = first bit of byte 0)
Ones(buf) == {o \in 0..(8 * Len(buf) - 1) : BitAt(buf[(o \div 8) + 1], o % 8) = 1}

\* the indices at which a bit sequence holds 1 (index 0 = first entry)
OnesOfBits(bits) == {i \in 0..(Len(bits) - 1) : bits[i + 1] = 1}

\* the number of keys of a list that have offset o set on the store st
Having(keys, st, o) == Cardinality({i \in 1..Len(keys) : o \in Ones(st[keys[i]])})

\* the reduction of keys under op on the store st: its length in bits, its offsets
RedLen(keys, st) == 8 * MaxLen([i \in 1..Len(keys) |-> st[keys[i]]])

RedOnes(op, keys, st) ==
    {o \in 0..(RedLen(keys, st) - 1) :
        CASE op = "AND" -> Having(keys, st, o) = Len(keys)
          [] op = "OR"  -> Having(keys, st, o) >= 1
          [] op = "XOR" -> Having(keys, st, o) % 2 = 1
          [] op = "NOT" -> Having(keys, st, o) = 0}

\* a derived call the store accepts: some key, and exactly one for NOT
WellFormed(call) == Len(call.keys) >= 1 /\ (call.op = "NOT" => Len(call.keys) = 1)

\* the callback that ran last was called with a null error
Got(cb) == delivered.call.cb = cb /\ delivered.res.out = "cb" /\ ~delivered.res.err

\* the reply of the last request has been handled, and its callback was cb
Handled(cb) == delivered.id # 0 /\ delivered.call.cb = cb

\* the commands the store executed for request id, in order
LogOf(id) == SelectSeq(log, LAMBDA e : e.id = id)
CmdsOf(id) == [i \in 1..Len(LogOf(id)) |-> LogOf(id)[i].cmd]

\* the entries of request id stand in the log next to each other
Contiguous(id) ==
    \A i, j \in 1..Len(log) :
        (i < j /\ log[i].id = id /\ log[j].id = id) => \A m \in i..j : log[m].id = id

\* C4: the callback of a derived facade operation (BITOP into the scratch key,
\* GET or BITCOUNT of it and DEL of it in one MULTI batch) receives the
\* reduction of the keys of its own call on the store as its batch found it,
\* whatever other requests and clients were under way.
C4_OwnReduction ==
    (Handled("tmpBitop") /\ WellFormed(delivered.call)) =>
        LET c == delivered.call
            v == delivered.res.val
        IN /\ CmdsOf(delivered.id) = <<BITOP(c.op, Scratch, c.keys),
                                        ReadCmd(c.cmd, Scratch), DEL(Scratch)>>
           /\ Contiguous(delivered.id)
           /\ IF c.cmd = "GET"
              THEN RedLen(c.keys, delivered.pre) > 0 =>
                     /\ Got("tmpBitop")
                     /\ v.k = "BitArray"
                     /\ Len(v.bits) = RedLen(c.keys, delivered.pre)
                     /\ OnesOfBits(v.bits) = RedOnes(c.op, c.keys, delivered.pre)
              ELSE /\ Got("tmpBitop")
                   /\ v.k = "int"
                   /\ v.n = Cardinality(RedOnes(c.op, c.keys, delivered.pre))

\* a derived operation written while an earlier one was still under way, run
\* after the other client wrote, has delivered a result
C4_Witness ==
    /\ Got("tmpBitop") /\ WellFormed(delivered.call)
    /\ delivered.behind >= 1
    /\ delivered.id = 2
    /\ \E i \in 1..Len(log) : log[i].id = 0 /\ log[i].cmd.key = Scratch
    /\ \E i \in 1..Len(log) : log[i].id = 1 /\ log[i].cmd.name = "BITOP"

\* C5: count of two or more keys delivers the number of offsets set in at
\* least one of them.
C5_CountIsUnion ==
    (delivered.call.fn = "count" /\ Len(delivered.call.keys) >= 2) =>
        /\ delivered.res.out = "cb" /\ ~delivered.res.err
        /\ delivered.res.val.k = "int"
        /\ delivered.res.val.n =
             Cardinality(UNION {Ones(delivered.pre[delivered.call.keys[i]]) :
                                  i \in 1..Len(delivered.call.keys)})

\* a count over keys of unequal length, with an offset set in both
C5_Witness ==
    /\ Got("tmpBitop") /\ delivered.call.fn = "count"
    /\ delivered.call.keys = <<"a", "b">>
    /\ Len(delivered.pre["a"]) < Len(delivered.pre["b"])
    /\ Ones(delivered.pre["a"]) \cap Ones(delivered.pre["b"]) # {}
    /\ delivered.res.val.n = 3

\* what getBitop(op, keys) delivers on the store st
GetBitopOn(op, keys, st) ==
    TmpBitopCallback("GET", ExecMulti(st, TmpBitopCmds("GET", op, keys, Scratch)).r)

\* C6: countBitop delivers the number of 1 entries of the vector getBitop
\* delivers for the same op and keys on the same store; for NOT of one key of
\* b bytes that is 8b minus the population count of the key.
C6_CountMatchesGet ==
    (Handled("tmpBitop") /\ delivered.call.fn = "countBitop"
        /\ WellFormed(delivered.call)) =>
        LET c == delivered.call
            g == GetBitopOn(c.op, c.keys, delivered.pre)
        IN /\ Got("tmpBitop")
           /\ delivered.res.val.k = "int"
           /\ g.out = "cb" => delivered.res.val.n = Cardinality(OnesOfBits(g.val.bits))
           /\ g.out = "throw" => delivered.res.val.n = 0
           /\ (c.op = "NOT" /\ Len(c.keys) = 1) =>
                delivered.res.val.n = 8 * Len(delivered.pre[c.keys[1]])
                                      - Cardinality(Ones(delivered.pre[c.keys[1]]))

\* countBitop NOT of a one-byte key with two bits set has delivered 6
C6_Witness ==
    /\ Got("tmpBitop") /\ delivered.call.fn = "countBitop"
    /\ delivered.call.op = "NOT" /\ delivered.call.keys = <<"a">>
    /\ delivered.pre["a"] = <<160>>
    /\ delivered.res.val.n = 6

\* a BitArray that decodes the stored value buf
Decodes(v, buf) ==
    /\ v.k = "BitArray"
    /\ v.buffer = buf
    /\ Len(v.bits) = 8 * Len(buf)
    /\ OnesOfBits(v.bits) = Ones(buf)

\* C8: get of n >= 2 keys issues one MGET and delivers a list of n BitArrays,
\* the i-th decoding the value of the i-th key; get of one key issues one GET
\* and delivers a single BitArray.
C8_GetShape ==
    Handled("get") =>
        LET keys == delivered.call.keys
            v == delivered.res.val
            held == \A i \in 1..Len(keys) : delivered.pre[keys[i]] # << >>
        IN IF Len(keys) >= 2
           THEN /\ CmdsOf(delivered.id) = <<MGET(keys)>>
                /\ held => /\ Got("get")
                            /\ v.k = "list" /\ Len(v.l) = Len(keys)
                            /\ \A i \in 1..Len(keys) :
                                  Decodes(v.l[i], delivered.pre[keys[i]])
           ELSE /\ CmdsOf(delivered.id) = <<GET(keys[1])>>
                /\ held => Got("get") /\ Decodes(v, delivered.pre[keys[1]])

\* a get of two keys of unequal length has delivered its list
C8_Witness ==
    /\ Got("get") /\ delivered.call.keys = <<"a", "b">>
    /\ Len(delivered.res.val.l) = 2
    /\ Len(delivered.res.val.l[1].bits) = 8 /\ Len(delivered.res.val.l[2].bits) = 16

\* the keys and the result of the test 'should xor on multiple keys'
XorExampleStore ==
    [k \in {"1", "2", "3", Scratch} |->
        CASE k = "1" -> <<145>> [] k = "2" -> <<137>> [] k = "3" -> <<69>> [] OTHER -> << >>]

\* C9: xor of N >= 2 keys delivers the vector whose bit i is 1 exactly when an
\* odd number of the keys have offset i set; keys {0,3,7}, {0,4,7}, {1,5,7}
\* give the bits {1,3,4,5,7}.
C9_XorIsParity ==
    /\ (Handled("tmpBitop") /\ delivered.call.fn = "xor" /\ Len(delivered.call.keys) >= 2
            /\ RedLen(delivered.call.keys, delivered.pre) > 0) =>
          /\ Got("tmpBitop")
          /\ delivered.res.val.k = "BitArray"
          /\ Len(delivered.res.val.bits) = RedLen(delivered.call.keys, delivered.pre)
          /\ \A i \in 0..(RedLen(delivered.call.keys, delivered.pre) - 1) :
                /\ i < Len(delivered.res.val.bits)
                /\ delivered.res.val.bits[i + 1] = 1
                     <=> Having(delivered.call.keys, delivered.pre, i) % 2 = 1
    /\ LET g == TmpBitopCallback("GET", ExecMulti(XorExampleStore,
                  TmpBitopCmds("GET", MethodOp("xor"), <<"1", "2", "3">>, Scratch)).r)
       IN g.out = "cb" /\ OnesOfBits(g.val.bits) = {1, 3, 4, 5, 7} /\ Len(g.val.bits) = 8

\* xor of three keys that all have one offset set has delivered that bit as 1
C9_Witness ==
    /\ Got("tmpBitop") /\ delivered.call.fn = "xor" /\ Len(delivered.call.keys) = 3
    /\ \E i \in 0..7 : /\ Having(delivered.call.keys, delivered.pre, i) = 3
                       /\ delivered.res.val.bits[i + 1] = 1

\* C7: once set(K, o, 1) was called for the offsets of S, and for nothing else,
\* on a key K that was absent, get(K) delivers the vector with 1 exactly at
\* the indices of S and count(K) delivers |S|; no set fails.
C7_SetThenRead ==
    /\ (delivered.call.fn = "set" /\ delivered.res.out = "cb") => ~delivered.res.err
    /\ LET K == delivered.call.keys[1]
           S == delivered.psets[K].S
       IN (delivered.call.fn \in {"get", "count"} /\ delivered.psets[K].pure /\ S # {}) =>
            /\ delivered.res.out = "cb" /\ ~delivered.res.err
            /\ delivered.call.fn = "get" =>
                 /\ delivered.res.val.k = "BitArray"
                 /\ OnesOfBits(delivered.res.val.bits) = S
            /\ delivered.call.fn = "count" =>
                 delivered.res.val.n = Cardinality(S)

\* a bit was set twice and another once on an absent key, then the key was read
C7_Witness ==
    /\ delivered.call.fn \in {"get", "count"}
    /\ delivered.psets[delivered.call.keys[1]].pure
    /\ delivered.psets[delivered.call.keys[1]].S # {}
    /\ Len(SelectSeq(log, LAMBDA e : e.cmd.name = "SETBIT"
                                      /\ e.cmd.key = delivered.call.keys[1]))
         > Cardinality(delivered.psets[delivered.call.keys[1]].S)

\* ---- Aggregate sessions
\* exec's callback has run, was handed no error, and the session asked for cleanup or not
ExecGot == Got("exec")
ExecRan == delivered.call.cb = "exec" /\ delivered.res.out = "cb"

\* the request exec wrote, while it waits on the connection
ExecItems == {i \in 1..Len(sendq) : sendq[i].call.cb = "exec"}

\* the position in the log of the last command of request id, 0 if none
LastOf(id) ==
    IF \E i \in 1..Len(log) : log[i].id = id
    THEN CHOOSE i \in 1..Len(log) : log[i].id = id /\ \A j \in (i + 1)..Len(log) : log[j].id # id
    ELSE 0

\* C1: for a session with destination D that asked for cleanup, exec queues the
\* terminal read of D and then DEL D at the end of the one MULTI batch; once
\* the store has executed the batch D is absent, no command of another
\* client stands between the commands of the batch, and D exists when exec's
\* callback runs only if another client wrote after the batch.
C1_DestGoneAfterBatch ==
    /\ \A i \in ExecItems :
          sendq[i].call.clean =>
             LET q == sendq[i].cmds
             IN /\ sendq[i].multi
                /\ Len(q) >= 2
                /\ q[Len(q) - 1] = ReadCmd(sess.lastCmd, sess.dest)
                /\ q[Len(q)] = DEL(sess.dest)
    /\ (ExecGot /\ delivered.call.clean) =>
          /\ delivered.post[sess.dest] = << >>
          /\ Contiguous(delivered.id)
          /\ log[LastOf(delivered.id)].cmd = DEL(sess.dest)
          /\ delivered.now[sess.dest] # << >> =>
                \E j \in (LastOf(delivered.id) + 1)..Len(log) : log[j].id = 0

\* a cleaned session whose batch wrote D delivered its result, and the other
\* client created D again before the callback ran
C1_Witness ==
    /\ ExecGot /\ delivered.call.clean
    /\ \E i \in 1..Len(log) : /\ log[i].id = delivered.id
                               /\ log[i].cmd.name = "BITOP" /\ log[i].cmd.key = sess.dest
    /\ delivered.post[sess.dest] = << >>
    /\ delivered.now[sess.dest] # << >>

\* C1 as stated: whenever the callback of exec runs on a session that asked
\* for cleanup, D does not exist in the store.
C1_DestGoneAtCallback ==
    (ExecRan /\ delivered.call.clean) => delivered.now[sess.dest] = << >>

\* does the store command cmd carry out the chained call c of a session on D
Carries(cmd, c, D) ==
    IF c.m = "set"
    THEN cmd = SETBIT(c.key, c.off, c.val)
    ELSE /\ cmd.name = "BITOP" /\ cmd.op = c.op
         /\ cmd.key = (IF c.m = "bitop" THEN c.key ELSE D)
         /\ Len(cmd.srcs) >= Len(c.keys)
         /\ SubSeq(cmd.srcs, 1, Len(c.keys)) = c.keys

\* C3: a chained call only appends to the session's batch: while the session
\* is open nothing of it is on the connection or in the store's log; what the
\* store executes for exec is the chained calls in their order, then the
\* terminal read and the cleanup, with no other client's command in between.
C3_BatchOnly ==
    /\ Open => /\ sendq = << >> /\ recvq = << >>
               /\ \A i \in 1..Len(log) : log[i].id = 0
               /\ Len(sess.queue) = Len(sess.chain)
    /\ \A id \in 1..MaxCalls :
          LogOf(id) # << >> =>
             /\ Contiguous(id)
             /\ Len(LogOf(id)) = Len(sess.chain) + 1 + (IF sess.cleanup THEN 1 ELSE 0)
             /\ \A i \in 1..Len(sess.chain) :
                   Carries(LogOf(id)[i].cmd, sess.chain[i], sess.dest)

\* the other client ran a command while three calls were being chained, and
\* the batch has been executed since
C3_Witness ==
    /\ Len(sess.chain) = 3
    /\ sess.chain[1].m = "set" /\ sess.chain[3].m = "set" /\ sess.chain[1] # sess.chain[3]
    /\ Len(log) >= 5 /\ log[1].id = 0 /\ log[2].id # 0
    /\ ExecGot

\* ---- the fold a session computes, on sets of offsets
\* a stored value as its length in bytes and the offsets set in it
Abs(st) == [k \in DOMAIN st |-> [len |-> Len(st[k]), ones |-> Ones(st[k])]]

HavingA(keys, A, o) == Cardinality({i \in 1..Len(keys) : o \in A[keys[i]].ones})

RECURSIVE MaxLenA(_, _)
MaxLenA(keys, A) ==
    IF keys = << >> THEN 0 ELSE Max(A[Head(keys)].len, MaxLenA(Tail(keys), A))

\* the reduction of keys under op
RedA(op, keys, A) ==
    [len |-> MaxLenA(keys, A),
     ones |-> {o \in 0..(8 * MaxLenA(keys, A) - 1) :
                  CASE op = "AND" -> HavingA(keys, A, o) = Len(keys)
                    [] op = "OR"  -> HavingA(keys, A, o) >= 1
                    [] op = "XOR" -> HavingA(keys, A, o) % 2 = 1
                    [] op = "NOT" -> HavingA(keys, A, o) = 0}]

SetA(A, k, o, v) ==
    [A EXCEPT ![k] = [len |-> Max(@.len, (o \div 8) + 1),
                      ones |-> IF v = 1 THEN @.ones \cup {o} ELSE @.ones \ {o}]]

\* One chained call on the fold f (A: the values; red: an xor/or/and came
\* before; any: a call storing a reduction came before). An xor/or/and reads
\* D besides its keys when joins says so; count, not and bitop read it when
\* any call storing a reduction came before. A reduction the store rejects
\* (no source, NOT of several) stores nothing.
FoldStep(f, c, D, joins) ==
    IF c.m = "set" THEN [f EXCEPT !.A = SetA(f.A, c.key, c.off, c.val)]
    ELSE LET isRed == c.m \in {"xor", "or", "and"}
             withD == IF isRed THEN (IF joins = "after a reduction" THEN f.red ELSE f.any)
                      ELSE f.any
             srcs == IF withD THEN c.keys \o <<D>> ELSE c.keys
             dst == IF c.m = "bitop" THEN c.key ELSE D
             ok == Len(srcs) >= 1 /\ (c.op = "NOT" => Len(srcs) = 1)
         IN [A |-> IF ok THEN [f.A EXCEPT ![dst] = RedA(c.op, srcs, f.A)] ELSE f.A,
             red |-> f.red \/ isRed,
             any |-> TRUE]

RECURSIVE Fold(_, _, _, _)
Fold(chain, f, D, joins) ==
    IF chain = << >> THEN f
    ELSE Fold(Tail(chain), FoldStep(f, Head(chain), D, joins), D, joins)

FoldOf(chain, st, D, joins) ==
    Fold(chain, [A |-> Abs(st), red |-> FALSE, any |-> FALSE], D, joins).A[D]

\* the value v handed to exec's callback is the terminal read of d
Reads(v, cmd, d) ==
    IF cmd = "GET"
    THEN IF d.len = 0 THEN v.k = "none"
         ELSE v.k = "BitArray" /\ Len(v.bits) = 8 * d.len /\ OnesOfBits(v.bits) = d.ones
    ELSE v.k = "int" /\ v.n = Cardinality(d.ones)

\* the session of the test 'should aggregate commands for a get', and its store
FoldExampleStore == [k \in {"one", "two", "three", Scratch} |-> << >>]

FoldExampleSession ==
    LET s0 == Aggregate(Scratch)
        s1 == AggrSetbit(s0, "one", 0, 1)
        s2 == AggrSetbit(s1, "two", 1, 1)
        s3 == AggrSetbit(s2, "two", 2, 1)
        s4 == AggrReduce(s3, MethodOp("or"), <<"one", "two">>)
        s5 == AggrSetbit(s4, "three", 1, 1)
        s6 == AggrSetbit(s5, "three", 2, 1)
        s7 == AggrReduce(s6, MethodOp("xor"), <<"three">>)
    IN AggrClean(s7, "")

FoldExample ==
    AggrExecCallback(TRUE, "GET", ExecMulti(FoldExampleStore, AggrExecQueue(FoldExampleSession)).r)

\* C2: exec delivers the fold of the chained reductions into D, each seeing
\* the set calls chained before it and none chained after it: a reduction
\* reads D besides its keys once any call storing a reduction (xor/or/and,
\* count, not, bitop) was chained before it, and only its keys otherwise. The
\* session set one{0}, two{1,2}, union(one,two), set three{1,2}, xor(three)
\* delivers the vector with only bit 0 set.
C2_ExecFold ==
    /\ ExecGot =>
          Reads(delivered.res.val, delivered.call.cmd,
                FoldOf(sess.chain, delivered.pre, sess.dest, "after any"))
    /\ FoldExample.out = "cb" /\ ~FoldExample.err
    /\ OnesOfBits(FoldExample.val.bits) = {0} /\ Len(FoldExample.val.bits) = 8

\* a session chained a set, a reduction and a second reduction that read D,
\* and a non-empty vector was delivered
C2_Witness ==
    /\ ExecGot /\ delivered.call.cmd = "GET"
    /\ Len(sess.chain) = 3
    /\ sess.chain[1].m = "set" /\ sess.chain[2].m = "or" /\ sess.chain[3].m = "xor"
    /\ delivered.res.val.k = "BitArray"
    /\ OnesOfBits(delivered.res.val.bits) # {}
    /\ delivered.pre[sess.dest] # << >>

\* C2 as stated: the first chained xor/or/and stores the reduction of its keys
\* alone, whatever was chained before it, and only the xor/or/and after it
\* read D.
C2_FirstReductionAlone ==
    ExecGot =>
        Reads(delivered.res.val, delivered.call.cmd,
              FoldOf(sess.chain, delivered.pre, sess.dest, "after a reduction"))

\* ---- constructor
\* every constructor call that returned left a buffer-returning mode on, and on
\* a client without return_buffers the constructor of part_002 threw without
\* storing the client or registering a listener
CtorEnforces ==
    \A i \in 1..Len(client.ctors) :
        LET c == client.ctors[i]
        IN /\ c.out = "ok" => (c.after.return_buffers \/ c.after.detect_buffers)
           /\ (client.ver = "part_002" /\ ~c.before.return_buffers) =>
                 c.out = "throw" /\ ~c.stored /\ ~c.listened /\ c.after = c.before

C11_FinalizedRejects ==
    Final => /\ sess.rejected = sess.late
             /\ <<sess.queue, sess.cleanup>> = sess.sent
             /\ ncalls = 1

\* ---- terminal command
\* the terminal command the chained calls decide: that of the last xor/or/and
\* or count among them, none ("") without one
RECURSIVE Decided(_)
Decided(chain) ==
    IF chain = << >> THEN ""
    ELSE LET c == chain[Len(chain)]
         IN IF c.m \in {"xor", "or", "and"} THEN "GET"
            ELSE IF c.m = "count" THEN "BITCOUNT"
            ELSE Decided(SubSeq(chain, 1, Len(chain) - 1))

\* C12: the terminal command of a session is GET when the last chained call
\* among xor/or/and and count was a reduction and BITCOUNT when it was count;
\* set, raw bitop and clean calls do not change it, and exec appends the read
\* of the destination with that command.
C12_LastDecides ==
    /\ sess.state # "none" => sess.lastCmd = Decided(sess.chain)
    /\ \A i \in ExecItems :
          /\ sendq[i].call.cmd = Decided(sess.chain)
          /\ sendq[i].cmds[Len(sess.chain) + 1] = ReadCmd(Decided(sess.chain), sess.dest)

\* a reduction, then count, then a raw bitop were chained, and exec delivered
\* an integer
C12_Witness ==
    /\ ExecGot /\ Len(sess.chain) = 3
    /\ sess.chain[1].m = "or" /\ sess.chain[2].m = "count" /\ sess.chain[3].m = "bitop"
    /\ delivered.call.cmd = "BITCOUNT" /\ delivered.res.val.k = "int"

\* ------------------------------------------------- a BitArray on its own
MaxBuf == 5
ByteVals == {0, 128, 129, 144}
Buffers == UNION {[1..n -> ByteVals] : n \in 0..MaxBuf}

\* new BitArray(buf)
BNew ==
    /\ "new" \notin ba.ran
    /\ ba' = [ba EXCEPT !.bits = CastFromBuffer(ba.buffer), !.ran = @ \cup {"new"}]
    /\ UNCHANGED <<store, sendq, recvq, delivered, log, ncalls, nother, sess, sets, client>>

\* BitArray.cardinalityFromBuffer(buf)
BCardinalityFromBuffer ==
    /\ "cardinalityFromBuffer" \notin ba.ran
    /\ ba' = [ba EXCEPT !.fromBuffer = CardinalityFromBuffer(ba.buffer),
                        !.ran = @ \cup {"cardinalityFromBuffer"}]
    /\ UNCHANGED <<store, sendq, recvq, delivered, log, ncalls, nother, sess, sets, client>>

\* BitArray.cardinalityFromArray(bits) on the bits of the BitArray
BCardinalityFromArray ==
    /\ "new" \in ba.ran /\ "cardinalityFromArray" \notin ba.ran
    /\ ba' = [ba EXCEPT !.fromArray = CardinalityFromArray(ba.bits),
                        !.ran = @ \cup {"cardinalityFromArray"}]
    /\ UNCHANGED <<store, sendq, recvq, delivered, log, ncalls, nother, sess, sets, client>>

\* BitArray.cardinality(x) on the first word of the buffer, passed as the
\* number cardinalityFromBuffer builds and as the unsigned number
BCardinality ==
    /\ "cardinality" \notin ba.ran /\ ba.buffer # << >>
    /\ LET w == WordAt(ba.buffer, 0)
       IN ba' = [ba EXCEPT !.card = <<BitCardinality(ToInt32(Signed(w))),
                                       BitCardinality(ToInt32(Unsigned(w)))>>,
                           !.ran = @ \cup {"cardinality"}]
    /\ UNCHANGED <<store, sendq, recvq, delivered, log, ncalls, nother, sess, sets, client>>

InitBits ==
    /\ store = EmptyStore
    /\ sendq = << >>
    /\ recvq = << >>
    /\ delivered = [id |-> 0, call |-> NoCall, res |-> Threw, pre |-> EmptyStore,
                    post |-> EmptyStore, now |-> EmptyStore,
                    psets |-> [k \in Keys |-> [pure |-> FALSE, S |-> {}]], behind |-> 0,
                    reply |-> Nil]
    /\ log = << >>
    /\ ncalls = 0
    /\ nother = 0
    /\ sess = NoSession
    /\ sets = [k \in Keys |-> [pure |-> TRUE, S |-> {}]]
    /\ client = TestClient
    /\ \E buf \in Buffers : ba = [NoBitArray EXCEPT !.buffer = buf]

NextBits == BNew \/ BCardinalityFromBuffer \/ BCardinalityFromArray \/ BCardinality

SpecBits == InitBits /\ [][NextBits]_vars

\* ---- the methods of a BitArray made from a buffer
MaxSets == 2
SetIdx == {0, 7, 8, 17}
SetVals == {0, 1, 2}

BSet ==
    /\ "new" \in ba.ran /\ ba.nset < MaxSets
    /\ \E idx \in SetIdx, val \in SetVals :
          ba' = [ba EXCEPT !.bits = Set(ba.bits, idx, val), !.nset = @ + 1,
                           !.top = Max(@, idx)]
    /\ UNCHANGED <<store, sendq, recvq, delivered, log, ncalls, nother, sess, sets, client>>

BToString ==
    /\ "new" \in ba.ran /\ "toString" \notin ba.ran
    /\ ba' = [ba EXCEPT !.bits = BitsToString(ba.bits).bits, !.str = BitsToString(ba.bits).str,
                        !.ran = @ \cup {"toString"}]
    /\ UNCHANGED <<store, sendq, recvq, delivered, log, ncalls, nother, sess, sets, client>>

NextObj == BNew \/ BSet \/ BToString

SpecObj == InitBits /\ [][NextObj]_vars

\* BitArray.prototype.cardinality: cardinalityFromBuffer(this.buffer)
BCardinalityOfBuffer ==
    /\ "new" \in ba.ran /\ "cardinality()" \notin ba.ran
    /\ ba' = [ba EXCEPT !.fromBuffer = CardinalityFromBuffer(ba.buffer),
                        !.ran = @ \cup {"cardinality()"}]
    /\ UNCHANGED <<store, sendq, recvq, delivered, log, ncalls, nother, sess, sets, client>>

\* set calls and one cardinality() call on a BitArray made from a buffer
NextCard == BNew \/ BSet \/ BCardinalityOfBuffer

\* on the buffers of up to MaxCardBuf bytes
MaxCardBuf == 2
InitCard == InitBits /\ Len(ba.buffer) <= MaxCardBuf

SpecCard == InitCard /\ [][NextCard]_vars

\* ---- the static functions on bit arrays, applied to the same arguments
MaxArgs == 3
MaxBits == 3
BitSeqs == UNION {[1..n -> {0, 1}] : n \in 0..MaxBits}
ArgLists == UNION {[1..n -> BitSeqs] : n \in 1..MaxArgs}

BAnd ==
    /\ "and" \notin ba.ran
    /\ ba' = [ba EXCEPT !.and = Intersect(ba.args), !.ran = @ \cup {"and"}]
    /\ UNCHANGED <<store, sendq, recvq, delivered, log, ncalls, nother, sess, sets, client>>

BOr ==
    /\ "or" \notin ba.ran
    /\ ba' = [ba EXCEPT !.or = Union(ba.args), !.ran = @ \cup {"or"}]
    /\ UNCHANGED <<store, sendq, recvq, delivered, log, ncalls, nother, sess, sets, client>>

\* xor(a, b) takes its first two arguments
BXor ==
    /\ "xor" \notin ba.ran /\ Len(ba.args) >= 2
    /\ ba' = [ba EXCEPT !.xor = Difference(ba.args[1], ba.args[2]), !.ran = @ \cup {"xor"}]
    /\ UNCHANGED <<store, sendq, recvq, delivered, log, ncalls, nother, sess, sets, client>>

InitAlg ==
    /\ store = EmptyStore
    /\ sendq = << >>
    /\ recvq = << >>
    /\ delivered = [id |-> 0, call |-> NoCall, res |-> Threw, pre |-> EmptyStore,
                    post |-> EmptyStore, now |-> EmptyStore,
                    psets |-> [k \in Keys |-> [pure |-> FALSE, S |-> {}]], behind |-> 0,
                    reply |-> Nil]
    /\ log = << >>
    /\ ncalls = 0
    /\ nother = 0
    /\ sess = NoSession
    /\ sets = [k \in Keys |-> [pure |-> TRUE, S |-> {}]]
    /\ client = TestClient
    /\ \E args \in ArgLists : ba = [NoBitArray EXCEPT !.args = args]

NextAlg == BAnd \/ BOr \/ BXor

SpecAlg == InitAlg /\ [][NextAlg]_vars

\* ---- payload of exec
\* the destination as the terminal read of the batch of request id found it:
\* the read is the last command but one with cleanup, the last one without
AtRead(id, clean, D) ==
    LET cmds == CmdsOf(id)
        at == Len(cmds) - (IF clean THEN 1 ELSE 0)
    IN ExecBatch(delivered.pre, SubSeq(cmds, 1, at - 1)).st[D]

\* C13: the payload of exec is the reply of the terminal read of the
\* destination, which stands last but one in the batch with cleanup and last
\* without: a BitArray decoding the destination when the terminal command is
\* GET (null when the read finds no value), its population count as an
\* integer when it is BITCOUNT.
C13_PayloadIsRead ==
    ExecGot =>
        LET c == delivered.call
            cmds == CmdsOf(delivered.id)
            d == AtRead(delivered.id, c.clean, sess.dest)
            v == delivered.res.val
        IN /\ cmds[Len(cmds) - (IF c.clean THEN 1 ELSE 0)] = ReadCmd(c.cmd, sess.dest)
           /\ c.clean => cmds[Len(cmds)] = DEL(sess.dest)
           /\ IF c.cmd = "GET"
              THEN IF d = << >> THEN v.k = "none" ELSE Decodes(v, d)
              ELSE v.k = "int" /\ v.n = Cardinality(Ones(d))

\* exec with cleanup delivered a BitArray of two bytes with bits set
C13_Witness ==
    /\ ExecGot /\ delivered.call.clean /\ delivered.call.cmd = "GET"
    /\ delivered.res.val.k = "BitArray"
    /\ Len(delivered.res.val.bits) = 16
    /\ Cardinality(OnesOfBits(delivered.res.val.bits)) >= 2

\* ---- the destination after exec without cleanup
\* the later count of the destination was answered
LaterGot == Got("raw") /\ delivered.call.fn = "count" /\ sess.seen.k = "int"

\* positions in the log of the commands of request id
At(id) == {i \in 1..Len(log) : log[i].id = id}

\* another client wrote key k after the batch of exec (request 1) and before
\* the command of request id
WroteBetween(k, id) ==
    \E i \in 1..Len(log) :
        /\ log[i].id = 0 /\ log[i].cmd.key = k
        /\ \A j \in At(1) : j < i
        /\ \A j \in At(id) : i < j

\* C14 as stated: a later count of the destination returns the value the
\* session's count delivered.
C14_LaterCountSame == LaterGot => delivered.res.val.n = sess.seen.n

\* C14: without clean(), the destination holds the final reduction once the
\* batch of exec has run: its population count in the store is the value the
\* session's count delivered, and a later count(destination) returns that
\* value unless another client wrote the destination after the batch.
C14_DestKept ==
    /\ (ExecGot /\ ~delivered.call.clean /\ delivered.call.cmd = "BITCOUNT")
          => delivered.res.val.n = Cardinality(Ones(delivered.post[sess.dest]))
    /\ (LaterGot /\ ~WroteBetween(sess.dest, delivered.id))
          => delivered.res.val.n = sess.seen.n

\* a session counted three bits and the later count of the destination agreed
C14_Witness ==
    /\ LaterGot /\ ~WroteBetween(sess.dest, delivered.id)
    /\ sess.seen.n >= 3 /\ delivered.res.val.n = sess.seen.n

\* ---- errors of the store
\* a callback of get, of a derived operation or of exec was run
Answered == delivered.id # 0 /\ delivered.call.cb \in {"get", "tmpBitop", "exec"}

\* C15: when the store answers the command of get, or the batch of a derived
\* operation or of exec, with an error, the callback is called with that
\* error and no result; a callback called with a result (a BitArray, a list
\* of them or an integer) is called with a null error, on a reply that is not
\* an error.
C15_ErrorOrResult ==
    Answered =>
        /\ delivered.reply.t = "err" => delivered.res = Called(TRUE, None)
        /\ (delivered.res.out = "cb" /\ delivered.res.val # None)
              => ~delivered.res.err /\ delivered.reply.t # "err"
        /\ (delivered.res.out = "cb" /\ delivered.res.err) => delivered.reply.t = "err"

\* the batch of exec was refused and the callback of exec got the error alone
C15_Witness ==
    /\ delivered.id # 0 /\ delivered.call.cb = "exec"
    /\ delivered.reply.t = "err" /\ delivered.res = Called(TRUE, None)

\* ---- reading an absent key
\* C16: get(K, callback) on a key that is absent from the store calls the
\* callback with a null error and an empty BitArray (no bits); the decoding
\* raises no exception.
C16_AbsentIsEmpty ==
    (Handled("get") /\ Len(delivered.call.keys) = 1
                    /\ delivered.pre[delivered.call.keys[1]] = << >>)
        => /\ delivered.res.out = "cb" /\ ~delivered.res.err
           /\ delivered.res.val.k = "BitArray" /\ delivered.res.val.bits = << >>

\* ---- arity of the derived operations
\* a derived operation called without keys, or not called with several keys
Malformed(call) ==
    /\ call.cb = "tmpBitop"
    /\ call.keys = << >> \/ (call.fn = "not" /\ Len(call.keys) > 1)

\* C17: not with more than one key, and a derived operation (xor, or, and,
\* not, getBitop, countBitop) with no key, are rejected before anything is
\* sent: no request of such a call is written to the connection, and no
\* BITOP without source keys or NOT over several keys reaches the store.
C17_RejectedBeforeSend ==
    /\ \A i \in 1..Len(sendq) : ~Malformed(sendq[i].call)
    /\ \A i \in 1..Len(log) :
          (log[i].id # 0 /\ log[i].cmd.name = "BITOP" /\ log[i].cmd.op = "NOT")
              => Len(log[i].cmd.srcs) = 1

\* ---- replies of an unexpected shape
\* the reply handed to the callback of a batch is no array, or the entry of
\* the terminal read is missing from it (a nil entry)
ShapeAnomaly ==
    /\ delivered.id # 0 /\ delivered.call.cb \in {"tmpBitop", "exec"}
    /\ \/ delivered.reply.t = "nil"
       \/ /\ delivered.reply.t = "list"
          /\ LET at == Len(delivered.reply.l)
                         - (IF delivered.call.cb = "tmpBitop" \/ delivered.call.clean
                            THEN 1 ELSE 0)
             IN at < 1 \/ delivered.reply.l[at].t = "nil"

\* C18: when the reply array handed to the callback of exec or of a derived
\* operation is absent or lacks the entry of the terminal read, the caller's
\* callback is called with an error; it is never called with a null error
\* and no result.
C18_AnomalyIsError ==
    /\ ShapeAnomaly => delivered.res = Called(TRUE, None)
    /\ (delivered.id # 0 /\ delivered.call.cb \in {"tmpBitop", "exec"}
           /\ delivered.res.out = "cb" /\ ~delivered.res.err)
          => delivered.res.val # None

\* ---- the bits of a buffer
\* C19: castFromBuffer(buf) yields exactly 8 * buf.length bits, and bits
\* 8j .. 8j+7 are the binary expansion of byte j, most significant bit first
\* (a byte 0 gives eight 0 bits); the buffer [128, 144] gives
\* [1,0,0,0,0,0,0,0, 1,0,0,1,0,0,0,0].
C19_BitsOfBytes ==
    "new" \in ba.ran =>
        /\ Len(ba.bits) = 8 * Len(ba.buffer)
        /\ \A j \in 1..Len(ba.buffer) : \A i \in 0..7 :
              ba.bits[8 * (j - 1) + i + 1] = (ba.buffer[j] \div Pow2(7 - i)) % 2
        /\ ba.buffer = <<128, 144>>
              => ba.bits = <<1, 0, 0, 0, 0, 0, 0, 0, 1, 0, 0, 1, 0, 0, 0, 0>>

\* the buffer of the test was decoded
C19_Witness ==
    /\ "new" \in ba.ran
    /\ ba.buffer = <<128, 144>> /\ Len(ba.bits) = 16 /\ ba.bits[9] = 1

\* C20: for every buffer of bytes, of every length (a final word of fewer
\* than four bytes is zero-padded), cardinalityFromBuffer(b) is
\* cardinalityFromArray(castFromBuffer(b)).
C20_SameCardinality ==
    {"new", "cardinalityFromBuffer", "cardinalityFromArray"} \subseteq ba.ran
        => ba.fromBuffer = ba.fromArray

\* both were computed for a buffer of five bytes whose fourth byte has its
\* high bit set and whose last byte starts a second word
C20_Witness ==
    /\ {"new", "cardinalityFromBuffer", "cardinalityFromArray"} \subseteq ba.ran
    /\ ba.buffer = <<144, 128, 0, 129, 144>>
    /\ ba.fromBuffer = 7 /\ ba.fromArray = 7

\* ---- population count of a word
\* the bits of the first four bytes of a buffer, as castFromBuffer lists them
FirstWordBits(buf) == CastFromBuffer(SubSeq(buf, 1, IF Len(buf) < 4 THEN Len(buf) ELSE 4))

\* C21: BitArray.cardinality(x) is the number of 1 bits of the 32-bit word x,
\* also when bit 31 is set, both for the negative number cardinalityFromBuffer
\* builds and for the unsigned number; cardinality(144) is 2 and
\* cardinality(128) is 1.
C21_CountsOnes ==
    "cardinality" \in ba.ran =>
        /\ ba.card[1] = SumSeq(FirstWordBits(ba.buffer))
        /\ ba.card[2] = SumSeq(FirstWordBits(ba.buffer))
        /\ ba.buffer = <<144>> => ba.card = <<2, 2>>
        /\ ba.buffer = <<128>> => ba.card = <<1, 1>>

\* a word with bit 31 set and bits in every byte was counted
C21_Witness ==
    /\ "cardinality" \in ba.ran
    /\ ba.buffer = <<144, 129, 128, 129>> /\ ba.card = <<7, 7>>

\* ---- and, or, xor of bit arrays
\* the greatest length among the arguments
LongestLen(args) == CHOOSE n \in {Len(args[k]) : k \in 1..Len(args)} :
                        \A k \in 1..Len(args) : Len(args[k]) <= n

\* argument k has a 1 at position i
Has(args, k, i) == i <= Len(args[k]) /\ args[k][i] = 1

\* C22: and / or over one or more bit sequences of possibly unequal length
\* return a sequence as long as the longest operand; a bit of and is 1 exactly
\* when every operand has a 1 there (a shorter operand counts as 0), a bit of
\* or is 1 exactly when some operand has a 1 there; and([1,1,1],[1,1]) is
\* [1,1,0].
C22_AndOr ==
    {"and", "or"} \subseteq ba.ran =>
        /\ Len(ba.and) = LongestLen(ba.args) /\ Len(ba.or) = LongestLen(ba.args)
        /\ \A i \in 1..LongestLen(ba.args) :
              /\ ba.and[i] = IF \A k \in 1..Len(ba.args) : Has(ba.args, k, i) THEN 1 ELSE 0
              /\ ba.or[i] = IF \E k \in 1..Len(ba.args) : Has(ba.args, k, i) THEN 1 ELSE 0
        /\ ba.args = <<<<1, 1, 1>>, <<1, 1>>>> => ba.and = <<1, 1, 0>>

\* and and or were applied to three operands of three different lengths
C22_Witness ==
    /\ {"and", "or"} \subseteq ba.ran
    /\ ba.args = <<<<1, 1>>, <<1, 0, 1>>, <<1>>>>
    /\ ba.and = <<1, 0, 0>> /\ ba.or = <<1, 1, 1>>

\* C23: xor(a, b) is as long as the longer of a and b and has a 1 exactly
\* where exactly one of a and b has a 1, a missing index counting as 0;
\* xor([1,0,0],[1,1,1]) is [0,1,1].
C23_Xor ==
    "xor" \in ba.ran =>
        LET a == ba.args[1]
            b == ba.args[2]
        IN /\ Len(ba.xor) = Max(Len(a), Len(b))
           /\ \A i \in 1..Len(ba.xor) :
                 ba.xor[i] = IF Has(ba.args, 1, i) # Has(ba.args, 2, i) THEN 1 ELSE 0
           /\ (a = <<1, 0, 0>> /\ b = <<1, 1, 1>>) => ba.xor = <<0, 1, 1>>

\* xor was applied to the arrays of the test, and to arrays of unequal length
C23_Witness ==
    /\ "xor" \in ba.ran /\ Len(ba.args) = 2
    /\ ba.args[1] = <<1, 0, 0>> /\ ba.args[2] = <<1, 1, 1>> /\ ba.xor = <<0, 1, 1>>

\* C24: and(a) and or(a) of a single sequence a of 0/1 entries are a itself,
\* in value and in length.
C24_SingleOperand ==
    ({"and", "or"} \subseteq ba.ran /\ Len(ba.args) = 1)
        => ba.and = ba.args[1] /\ ba.or = ba.args[1]

\* and and or were applied to the single operand [0,1,1]
C24_Witness ==
    /\ {"and", "or"} \subseteq ba.ran /\ ba.args = <<<<0, 1, 1>>>>
    /\ ba.and = <<0, 1, 1>> /\ ba.or = <<0, 1, 1>>

\* ---- toString and set
\* C25: toString returns the stored bits joined in reverse order (character j
\* of the string is bit n-1-j of the n stored bits) and leaves the stored bits
\* unchanged; the bits of the bytes [128,144] print as '0000100100000001' and
\* the bits [1,0,0,1,0,0,0,0] of a key with bits 0 and 3 set as '00001001'.
C25_ToString ==
    [][BToString =>
         LET n == Len(ba.bits)
         IN /\ ba'.bits = ba.bits
            /\ Len(ba'.str) = n
            /\ \A j \in 0..(n - 1) : ba'.str[j + 1] = (IF ba.bits[n - j] = 1 THEN "1" ELSE "0")
            /\ ba.bits = CastFromBuffer(<<128, 144>>)
                  => ba'.str = <<"0","0","0","0","1","0","0","1","0","0","0","0","0","0","0","1">>
            /\ ba.bits = <<1, 0, 0, 1, 0, 0, 0, 0>>
                  => ba'.str = <<"0","0","0","0","1","0","0","1">>]_vars

\* the BitArray of the bytes [128,144] was printed
C25_Witness ==
    /\ "toString" \in ba.ran /\ ba.buffer = <<128, 144>> /\ ba.nset = 0
    /\ ba.str = <<"0","0","0","0","1","0","0","1","0","0","0","0","0","0","0","1">>
    /\ ba.bits = <<1, 0, 0, 0, 0, 0, 0, 0, 1, 0, 0, 1, 0, 0, 0, 0>>

\* C26 as stated: after any sequence of set calls every entry of bits is 0 or
\* 1 and bits.length is 8 * buffer.length.
C26_LengthKept ==
    "new" \in ba.ran =>
        /\ \A i \in 1..Len(ba.bits) : ba.bits[i] \in {0, 1}
        /\ Len(ba.bits) = 8 * Len(ba.buffer)

\* C26: for every BitArray built from a buffer and after any sequence of set
\* calls, every entry of bits is 0 or 1; bits.length is 8 * buffer.length as
\* long as every set call had an index below bits.length, and a set call
\* with a greater index i grows bits to i + 1 entries.
C26_BitsAfterSet ==
    "new" \in ba.ran =>
        /\ \A i \in 1..Len(ba.bits) : ba.bits[i] \in {0, 1}
        /\ Len(ba.bits) = Max(8 * Len(ba.buffer), ba.top + 1)

\* two set calls, one with the value 2, one beyond the end of the bits
C26_Witness ==
    /\ ba.buffer = <<128>> /\ ba.nset = 2 /\ ba.top = 17
    /\ ba.bits = <<1, 0, 0, 0, 0, 0, 0, 1>> \o Zeros(9) \o <<1>>

\* ---- bitop without a callback
\* the session was made by bitop(op, dest, keys...) on the Bitmap
ByBitop == sess.state # "none" /\ sess.chain # << >> /\ sess.chain[1].m = "bitop"

\* C27: bitop(op, dest, keys...) without a callback on the Bitmap gives a
\* session whose destination is dest and whose batch holds exactly that one
\* BITOP; nothing is sent on the main client and the Bitmap is as it was.
C27_BitopOpensSession ==
    ByBitop =>
        LET c == sess.chain[1]
        IN /\ sess.dest = c.key
           /\ sess.queue[1] = BITOP(c.op, c.key, c.keys)
           /\ Len(sess.chain) = 1 =>
                 /\ sess.state = "open" /\ sess.queue = <<BITOP(c.op, c.key, c.keys)>>
                 /\ sendq = << >> /\ recvq = << >> /\ ncalls = 0
                 /\ \A i \in 1..Len(log) : log[i].id = 0
                 /\ client = TestClient

\* bitop('OR', 'b', 'a') gave a session on b that was then executed
C27_Witness ==
    /\ ByBitop /\ sess.dest = "b" /\ sess.chain[1].op = "OR"
    /\ sess.state = "final" /\ Len(sess.chain) = 2 /\ ExecGot

\* ------------------------------------------- lib/bitmap.js: tempBitop
\* the temporary key of tempBitop
Tmp == "tmp"
MaxTemp == 2
TempKeyLists == {<<"a">>, <<"b">>, <<"a", "b">>}
TempStores ==
    {[k \in Keys \cup {Tmp} |-> IF k = Tmp THEN t ELSE s[k]] :
        s \in InitStores, t \in {<< >>, <<255>>}}

\* a tempBitop call and the callback of it that waits for a reply
\* (read: err and resp of the read, closed over by the callback of DEL;
\*  errs: history, the commands of the call the store refused)
TempCall(cb, cmd, op, keys, read, errs) ==
    [fn |-> "tempBitop", cb |-> cb, cmd |-> cmd, op |-> op, keys |-> keys,
     clean |-> FALSE, read |-> read, errs |-> errs]

\* the callback of the read: `isGet && (resp = new BitArray(resp))`
TempReadThrows(cmd, reply) == cmd = "GET" /\ BitArrayThrows(reply)

\* the callback of DEL takes no argument and calls next(err, resp) of the read
TempDelCallback(cmd, read) ==
    Called(read.t = "err",
           IF cmd = "GET" THEN BitArray(read.b)
           ELSE IF read.t = "int" THEN IntV(read.n) ELSE None)

\* tempBitop(op, cmd, keys..., callback): bitop(op, 'tmp', keys..., callback)
FTempBitopOn(max) ==
    \E cmd \in {"GET", "BITCOUNT"}, op \in {"OR", "AND"}, keys \in TempKeyLists :
        /\ Send(<<BITOP(op, Tmp, keys)>>, FALSE,
                TempCall("tempBitop", cmd, op, keys, Nil, {}), max)
        /\ UNCHANGED <<ba, client, store, recvq, delivered, log, nother, sess, sets>>

\* The client runs the callback of the next reply of a tempBitop call:
\* bitop's wrapper hands the BITOP reply, error or not, to tempBitop's callback,
\* which ignores both arguments and sends the read; the callback of the read
\* sends DEL; the callback of DEL calls the caller's callback.
DeliverTemp ==
    /\ recvq # << >>
    /\ LET e == Head(recvq)
           c == e.call
           sent == CASE c.cb = "tempBitop" -> "BITOP" [] c.cb = "tempRead" -> c.cmd
                     [] OTHER -> "DEL"
           errs == c.errs \cup (IF e.reply.t = "err" THEN {sent} ELSE {})
           write(cmds, call) ==
               Append(sendq, Item(e.id, FALSE, cmds, call, Len(sendq) + Len(recvq) - 1))
           done(res) ==
               [id |-> e.id, call |-> [c EXCEPT !.errs = errs], res |-> res,
                pre |-> e.pre, post |-> e.post, now |-> store,
                psets |-> e.psets, behind |-> e.behind, reply |-> e.reply]
       IN CASE c.cb = "tempBitop" ->
                 /\ sendq' = write(<<ReadCmd(c.cmd, Tmp)>>,
                                   TempCall("tempRead", c.cmd, c.op, c.keys, Nil, errs))
                 /\ delivered' = delivered
            [] c.cb = "tempRead" ->
                 IF TempReadThrows(c.cmd, e.reply)
                 THEN /\ sendq' = sendq
                      /\ delivered' = done(Threw)
                 ELSE /\ sendq' = write(<<DEL(Tmp)>>,
                                  TempCall("tempDel", c.cmd, c.op, c.keys, e.reply, errs))
                      /\ delivered' = delivered
            [] c.cb = "tempDel" ->
                 /\ sendq' = sendq
                 /\ delivered' = done(TempDelCallback(c.cmd, c.read))
    /\ recvq' = Tail(recvq)
    /\ UNCHANGED <<ba, client, store, log, ncalls, nother, sess, sets>>

InitTemp ==
    /\ store \in TempStores
    /\ sendq = << >>
    /\ recvq = << >>
    /\ delivered = [id |-> 0, call |-> NoCall, res |-> Threw, pre |-> EmptyStore,
                    post |-> EmptyStore, now |-> EmptyStore,
                    psets |-> [k \in Keys |-> [pure |-> FALSE, S |-> {}]], behind |-> 0,
                    reply |-> Nil]
    /\ log = << >>
    /\ ncalls = 0
    /\ nother = 0
    /\ sess = NoSession
    /\ sets = [k \in Keys |-> [pure |-> FALSE, S |-> {}]]
    /\ client = CreateClient("lib/bitmap.js", TRUE, FALSE, TRUE)
    /\ ba = NoBitArray

\* tempBitop calls that overlap, on a store that answers every command
NextTemp == FTempBitopOn(MaxTemp) \/ Serve \/ DeliverTemp

SpecTemp == InitTemp /\ [][NextTemp]_vars

\* one tempBitop call on a store that may refuse any of its commands
NextTempErr == FTempBitopOn(MaxErrCalls) \/ Serve \/ ServeErr \/ DeliverTemp

SpecTempErr == InitTemp /\ [][NextTempErr]_vars

\* ------------------------------- lib/bitmap.js: the Aggregate session
\* Bitmap._keybuf of the words 'GET' and 'BITCOUNT': keys like any other
LibKeys == Keys \cup {Tmp, "GET", "BITCOUNT"}
LibStores == {[k \in LibKeys |-> IF k \in Keys THEN s[k] ELSE << >>] : s \in InitStores}

\* the Aggregate constructor of lib/bitmap.js: this.dest = dest, "" when missing
LibAggregate(dest) == [NoSession EXCEPT !.state = "open", !.dest = dest]

\* Aggregate.prototype.tempBitop(op, cmd, keys...): args = slice.call(arguments, 1)
\* keeps cmd in front of the keys; dest = this.dest || 'tmp'
LibAggrTempBitop(s, op, cmd, keys) ==
    AggrBitop([s EXCEPT !.lastCmd = cmd], op, IF s.dest = "" THEN Tmp ELSE s.dest,
              <<cmd>> \o keys)

\* xor/or/and of lib/bitmap.js under their shims
LibAggrReduce(s, op, keys) == [LibAggrTempBitop(s, op, "GET", keys) EXCEPT !.lastCmd = "GET"]

\* Bitmap.prototype.bitcount of lib/bitmap.js on a session
LibAggrCount(s, keys) ==
    LibAggrTempBitop([s EXCEPT !.lastCmd = "BITCOUNT"], "OR", "BITCOUNT", keys)

\* Aggregate.prototype.clean of lib/bitmap.js: only with a destination
LibAggrClean(s) == [s EXCEPT !.cleanup = IF s.dest # "" THEN TRUE ELSE @]

\* the exec call of a session and what its callback closed over
\* (cb: "exec" for the callback exec wraps around next, "next" for next itself;
\*  opt: the clone of mainClient.options taken by exec)
LibExecCall(s, opt) ==
    [fn |-> "exec", cb |-> IF s.dest # "" /\ s.lastCmd # "" THEN "exec" ELSE "next",
     cmd |-> s.lastCmd, op |-> "", keys |-> << >>, clean |-> s.cleanup, opt |-> opt]

\* the options shim of Aggregate.prototype.exec
LibExecOptions == [return_buffers |-> TRUE, detect_buffers |-> FALSE]

\* the callback of the batch: exec's wrapper, or next with the raw replies
LibExecCallback(call, reply) ==
    IF call.cb = "exec" THEN AggrExecCallback(call.clean, call.cmd, reply)
    ELSE IF reply.t = "err" THEN Called(TRUE, None) ELSE Called(FALSE, ListV(reply.l))

\* aggregate([dest]); a second session may be opened once exec was called on
\* the first (the model keeps the object of the latest session)
LBegin ==
    /\ sess.state \in {"none", "final"}
    /\ ncalls < MaxCalls
    /\ \E dest \in {"", Scratch} : sess' = LibAggregate(dest)
    /\ UNCHANGED <<ba, client, store, sendq, recvq, delivered, log, ncalls, nother, sets>>

MaxLibChain == 2
LibReductions == {<<"and", <<"a", "b">>>>, <<"or", <<"b">>>>}

LReduce ==
    /\ Len(sess.chain) < MaxLibChain
    /\ \E a \in LibReductions :
          Chain(LibAggrReduce(sess, MethodOp(a[1]), a[2]),
                Chained(a[1], MethodOp(a[1]), "", a[2], 0, 0))

LCount ==
    /\ Len(sess.chain) < MaxLibChain
    /\ Chain(LibAggrCount(sess, <<"b">>), Chained("count", "OR", "", <<"b">>, 0, 0))

LClean ==
    /\ Open /\ ~sess.cleanup /\ sess.dest # ""
    /\ sess' = LibAggrClean(sess)
    /\ UNCHANGED <<ba, client, store, sendq, recvq, delivered, log, ncalls, nother, sets>>

\* exec(next): cmd.toUpperCase() throws before anything else without a terminal
\* command; else the options are cloned and switched and the batch is submitted
LExec ==
    /\ Open
    /\ IF AggrExecThrows(sess)
       THEN /\ ~sess.threw
            /\ sess' = [sess EXCEPT !.threw = TRUE]
            /\ UNCHANGED <<client, sendq, ncalls>>
       ELSE /\ Send(AggrExecQueue(sess), TRUE, LibExecCall(sess, client.options), MaxCalls)
            /\ client' = [client EXCEPT !.options = LibExecOptions,
                             !.inflight = Append(@, [opt |-> client.options,
                                                     restore |-> sess.dest # ""])]
            /\ sess' = [sess EXCEPT !.state = "final", !.queue = AggrExecQueue(sess),
                                     !.sent = <<AggrExecQueue(sess), sess.cleanup>>]
    /\ UNCHANGED <<ba, store, recvq, delivered, log, nother, sets>>

\* the callback of the next reply runs: exec's wrapper first puts the cloned
\* options back on the main client
DeliverLib ==
    /\ recvq # << >>
    /\ LET e == Head(recvq)
       IN /\ delivered' = [id |-> e.id, call |-> e.call,
                           res |-> LibExecCallback(e.call, e.reply),
                           pre |-> e.pre, post |-> e.post, now |-> store,
                           psets |-> e.psets, behind |-> e.behind, reply |-> e.reply]
          /\ client' = [client EXCEPT !.inflight = Tail(@),
                           !.options = IF e.call.cb = "exec" THEN e.call.opt ELSE @]
    /\ recvq' = Tail(recvq)
    /\ UNCHANGED <<ba, store, sendq, log, ncalls, nother, sess, sets>>

\* after new Bitmap(client) of lib/bitmap.js, which switched detect_buffers on
InitLib ==
    /\ store \in LibStores
    /\ sendq = << >>
    /\ recvq = << >>
    /\ delivered = [id |-> 0, call |-> NoCall, res |-> Threw, pre |-> EmptyStore,
                    post |-> EmptyStore, now |-> EmptyStore,
                    psets |-> [k \in Keys |-> [pure |-> FALSE, S |-> {}]], behind |-> 0,
                    reply |-> Nil]
    /\ log = << >>
    /\ ncalls = 0
    /\ nother = 0
    /\ sess = NoSession
    /\ sets = [k \in Keys |-> [pure |-> FALSE, S |-> {}]]
    /\ \E rb \in BOOLEAN : client = BitmapLib(CreateClient("lib", rb, FALSE, TRUE))
    /\ ba = NoBitArray

NextLib == LBegin \/ LReduce \/ LCount \/ LClean \/ LExec \/ Serve \/ DeliverLib

SpecLib == InitLib /\ [][NextLib]_vars

\* -------------------------------- count / bitcount without a callback
\* Bitmap.prototype.bitcount: `args.length < 3`, whatever the arguments are
BitcountDirect(nargs) == nargs < 3

\* client.BITCOUNT.apply(client, arguments): every argument goes to the store
\* (srcs: the arguments after the key, where the store expects start and end)
BitcountArgs(args) == Cmd("BITCOUNT", args[1], Tail(args), "", 0, 0)

\* count(keys...) on the Bitmap itself without a callback: BITCOUNT with all
\* the arguments, or countBitop('OR', keys...), which without a callback ends
\* in bitop making a session on the scratch key of the Bitmap
FCountNoCallback ==
    \E keys \in KeyLists :
        /\ IF BitcountDirect(Len(keys))
           THEN /\ Send(<<BitcountArgs(keys)>>, FALSE,
                        Call("count", "none", "", "", keys, FALSE), MaxCalls)
                /\ sess' = sess
           ELSE /\ sess.state = "none"
                /\ sess' = [AggrBitop(Aggregate(BitmapDest("")), "OR", BitmapDest(""), keys)
                              EXCEPT !.chain = <<Chained("count", "OR", "", keys, 0, 0)>>]
                /\ UNCHANGED <<sendq, ncalls>>
        /\ UNCHANGED <<ba, client, store, recvq, delivered, log, nother, sets>>

NextCount == FCount(KeyLists, MaxCalls) \/ FCountNoCallback \/ Serve \/ Deliver

SpecCount == Init /\ [][NextCount]_vars

\* ------------------------------------ lib/bitmap.js: memoryCardinality
\* memoryCardinality(keys..., callback): the keys are turned into buffers, the
\* callback that would union and count the replies is pushed onto them, and
\* the method returns: the line that sent them to the client is a comment
FMemoryCardinality ==
    /\ ncalls < MaxCalls
    /\ \E keys \in KeyLists :
          client' = [client EXCEPT !.pending = Append(@, [id |-> ncalls + 1, keys |-> keys])]
    /\ ncalls' = ncalls + 1
    /\ UNCHANGED <<ba, store, sendq, recvq, delivered, log, nother, sess, sets>>

NextMem ==
    \/ FMemoryCardinality
    \/ FGet(KeyLists, MaxCalls)
    \/ Other(OtherCmds)
    \/ Serve
    \/ Deliver

\* the store answers every request and the client runs every callback
SpecMem == InitLib /\ [][NextMem]_vars /\ WF_vars(Serve) /\ WF_vars(Deliver)

\* ---- the default destination of a session
\* C28: aggregate() without a destination opens a session on the scratch key
\* configured on the Bitmap (options.destination, 'bitmap:tmp' by default):
\* its reductions, its terminal read and its cleanup use that key.
C28_DefaultIsConfigured ==
    (sess.conf.bitmap # "" /\ sess.conf.arg = "") =>
        /\ sess.dest = sess.conf.bitmap
        /\ \A i \in 1..Len(sess.queue) :
              sess.queue[i].name \in {"BITOP", "GET", "BITCOUNT", "DEL"}
                  => sess.queue[i].key = sess.conf.bitmap

\* ---- tempBitop of lib/bitmap.js
\* what cmd gives on the reduction of the keys of a call (the keys are not
\* written by any tempBitop call: the store holds what they held at the call)
TempExpected(c) ==
    LET r == ExecCmd(ExecCmd(store, BITOP(c.op, Tmp, c.keys)).st, ReadCmd(c.cmd, Tmp)).r
    IN IF r.t = "buf" THEN BitArray(r.b) ELSE IF r.t = "int" THEN IntV(r.n) ELSE None

\* C29: the callback of a tempBitop call is given the result of cmd on the
\* reduction of the keys of that call, also when another tempBitop call was
\* made on the same client before the BITOP reply of the first arrived.
C29_OwnReduction ==
    (delivered.call.fn = "tempBitop" /\ delivered.res.out = "cb") =>
        /\ ~delivered.res.err
        /\ delivered.res.val = TempExpected(delivered.call)

\* C30: a failure of any of the three commands of tempBitop reaches the
\* callback as an error without a result, and after a failed BITOP neither
\* the read nor DEL is sent.
C30_ErrorsPropagate ==
    /\ \A i \in 1..Len(sendq) :
          sendq[i].call.fn = "tempBitop" => "BITOP" \notin sendq[i].call.errs
    /\ (delivered.call.fn = "tempBitop" /\ delivered.call.errs # {}) =>
          delivered.res = Called(TRUE, None)

\* ---- the sessions of lib/bitmap.js
\* the chained calls of the session that store a reduction
IsReduction(c) == c.m \in {"xor", "or", "and", "count"}

\* C31: the BITOP a session of lib/bitmap.js queues for a chained
\* xor/or/and/count names as sources the keys of the call, and the destination
\* after them when and only when an earlier reduction was chained.
C31_SourcesAreKeys ==
    Open =>
        \A i \in 1..Len(sess.chain) :
            IsReduction(sess.chain[i]) =>
                sess.queue[i].srcs =
                    sess.chain[i].keys
                        \o (IF \E j \in 1..(i - 1) : IsReduction(sess.chain[j])
                            THEN <<sess.dest>> ELSE << >>)

\* ---- not on a session
\* C32: a not(k) chained on a session, at any position, queues a BITOP NOT
\* into the destination with exactly one source key, and GET is the terminal
\* command of the session once it was chained.
C32_NotIsAReduction ==
    Open =>
        \A i \in 1..Len(sess.chain) :
            sess.chain[i].m = "not" =>
                /\ sess.queue[i].name = "BITOP" /\ sess.queue[i].op = "NOT"
                /\ sess.queue[i].key = sess.dest
                /\ Len(sess.queue[i].srcs) = 1
                /\ i = Len(sess.chain) => sess.lastCmd = "GET"

\* ---- exec without a terminal command
\* C33: exec on a session for which no terminal command was recorded (only
\* set and raw bitop calls were chained) submits the batch as it is, without a
\* terminal read and without DEL: the call does not end in an exception.
C33_PlainExec ==
    (sess.state # "none" /\ sess.lastCmd = "") =>
        /\ ~sess.threw
        /\ sess.state = "final" => sess.queue = sess.sent[1]

\* ---- count on the Bitmap itself
\* C34: count with exactly one key sends a single BITCOUNT of that key and
\* nothing on the scratch key; with two or more keys it goes through the OR
\* reduction into the scratch key, with or without a callback.
C34_CountRoutes ==
    \A i \in 1..Len(sendq) :
        LET it == sendq[i] IN
        (it.call.fn = "count" /\ it.acc = << >>) =>
            IF Len(it.call.keys) = 1
            THEN it.cmds = <<BITCOUNT(it.call.keys[1])>>
            ELSE /\ it.cmds[1] = BITOP("OR", Scratch, it.call.keys)
                 /\ it.cmds[2] = BITCOUNT(Scratch)

\* ---- memoryCardinality of lib/bitmap.js
\* C35: a memoryCardinality call with a callback is followed, eventually, by
\* that callback being invoked (with the cardinality of the union of the keys).
C35_CallbackRuns ==
    (client.pending # << >>) ~>
        (\E i \in 1..Len(client.pending) :
            delivered.id = client.pending[i].id /\ delivered.res.out = "cb")

\* ---- the frame of a derived operation
\* no key other than the scratch key is among the sources of the call
AwayFromScratch(call) == \A i \in 1..Len(call.keys) : call.keys[i] # Scratch

\* nothing was executed by the store after the batch of the delivered call
NothingSince == log # << >> /\ log[Len(log)].id = delivered.id

\* C36: a derived operation with a callback whose sources all differ from the
\* scratch key leaves every other key as it was and the scratch key absent,
\* whatever the scratch key held before; with no writer after its batch this
\* is the store its callback finds.
C36_OnlyScratch ==
    (Handled("tmpBitop") /\ AwayFromScratch(delivered.call)) =>
        /\ \A k \in Keys \ {Scratch} : delivered.post[k] = delivered.pre[k]
        /\ delivered.post[Scratch] = << >>
        /\ NothingSince => delivered.now = delivered.post

\* a union of two keys was delivered on a store whose scratch key held data
C36_Witness ==
    /\ Got("tmpBitop") /\ delivered.call.keys = <<"a", "b">>
    /\ delivered.pre[Scratch] # << >>
    /\ delivered.pre["a"] # << >>
    /\ NothingSince
    /\ delivered.now[Scratch] = << >>

QueuesBitop(c) == c.m \in {"xor", "or", "and", "count", "not", "bitop"}

\* the first chained call that queues a BITOP is an xor/or/and over keys other
\* than the destination
RECURSIVE FirstIsPlain(_, _)
FirstIsPlain(chain, dest) ==
    /\ chain # << >>
    /\ IF QueuesBitop(Head(chain))
       THEN /\ Head(chain).m \in {"xor", "or", "and"}
            /\ \A i \in 1..Len(Head(chain).keys) : Head(chain).keys[i] # dest
       ELSE FirstIsPlain(Tail(chain), dest)

\* contents the destination may have held before exec
DestVals == {<< >>, <<255>>, <<1, 2>>, <<160, 0, 7>>}

\* what exec's callback would deliver had the destination held v before the batch
DeliveredOn(v) ==
    AggrExecCallback(delivered.call.clean, delivered.call.cmd,
                     ExecMulti([delivered.pre EXCEPT ![sess.dest] = v], sess.sent[1]).r)

\* C38: for a session whose first chained reduction is an xor/or/and over keys
\* other than the destination, the payload exec delivers is the one it would
\* deliver on any store that differs only in what the destination held before.
C38_DestDoesNotLeak ==
    (Handled("exec") /\ FirstIsPlain(sess.chain, sess.dest)) =>
        \A v \in DestVals : DeliveredOn(v) = delivered.res

\* a session of two reductions delivered a vector on a store whose destination
\* held data before the batch
C38_Witness ==
    /\ Got("exec") /\ FirstIsPlain(sess.chain, sess.dest)
    /\ Cardinality({i \in 1..Len(sess.chain) : QueuesBitop(sess.chain[i])}) >= 2
    /\ delivered.pre[sess.dest] # << >>
    /\ delivered.res.val.k = "BitArray"
    /\ DeliveredOn(<< >>) = delivered.res

\* ---- cardinality() of a BitArray
\* C39: whenever cardinality() is called on a BitArray built from a buffer,
\* also after set calls, it returns the number of 1 entries of toJSON(), the
\* bits of the BitArray at that moment.
C39_CountsCurrentBits ==
    [][BCardinalityOfBuffer => ba'.fromBuffer = Cardinality(OnesOfBits(ba.bits))]_vars

====
